---- MODULE Spec2Model ----
(***************************************************************************)
(* Point-get fast path of TiDB.                                            *)
(*                                                                         *)
(*   Spec      the PointGetExecutor state machine (pkg/executor/           *)
(*             point_get.go): Open, Next, Close of an executor that Init   *)
(*             set up from a plan, over a session's                        *)
(*             transaction (lock set, pessimistic-lock cache).             *)
(*   PlanSpec  the point-plan resolver (planner/core point_get_plan.go):   *)
(*             getNameValuePairs' result, getPartitionDef, findPKHandle,   *)
(*             checkTblIndexForPointPlan, tryPointGetPlan.                 *)
(*                                                                         *)
(* The storage / transaction layer is an external collaborator: every      *)
(* answer it gives (a lock response, a membuffer or snapshot read) is a    *)
(* nondeterministic choice from a small set.                               *)
(***************************************************************************)
EXTENDS Integers, Sequences, FiniteSets, TLC

VARIABLES
    plan,      \* executor: the PointGetPlan last handed to Init
    sess,      \* executor: session / statement flags read through e.Ctx()
    e,         \* executor: the PointGetExecutor's own fields
    phase,     \* executor: caller's position: "unopened", "opened", "closed"
    lockCache, \* session TxnCtx pessimistic-lock cache: set of <<key, value>>
    locked,    \* keys the transaction holds a pessimistic lock on
    trace,     \* lock requests and reads issued by the last Next call
    result,    \* what the last call returned
    hist,      \* call history: Next calls since Open, whether Close was called,
               \* the locks held before and the return of the last executing Next
    q,         \* planner: statement, table and schema handed to tryPointGetPlan
    fp         \* planner: what tryPointGetPlan returned

vars == <<plan, sess, e, phase, lockCache, locked, trace, result, hist, q, fp>>
execVars == <<plan, sess, e, phase, lockCache, locked, trace, result, hist>>
planVars == <<q, fp>>

(***************************************************************************)
(* Bounds                                                                  *)
(***************************************************************************)
MaxHandle == 1      \* integer handles 1..MaxHandle
MaxNext == 3        \* Next calls counted per Open

Handles == 1..MaxHandle

(***************************************************************************)
(* Keys and values.  A key or value of length 0 is Go's nil / empty slice. *)
(***************************************************************************)
NoKey == <<>>
NoVal == <<>>
TableID == "t"
PartID == "p0"

Nil == "nil"
ErrNotExist == "ErrNotExist"          \* kv.ErrNotExist
ErrNotFound == "ErrNotFound"          \* membuffer miss (kv.IsErrNotFound)

\* tablecodec.EncodeIndexSeekKey / EncodeRowKeyWithHandle: injective encodings.
EncodeIndexSeekKey(tID, encodedIdxVals) == <<"i", tID, encodedIdxVals>>
EncodeRowKeyWithHandle(tID, handle) == <<"r", tID, handle>>

\* Values a unique-index key can hold: a handle with the partition id of a
\* global index, or bytes that do not decode.
IndexValues == {<<"h", h, PartID>> : h \in Handles} \cup {<<"bad">>}
RowValues == {<<"row">>, <<"badrow">>}
ValuesOf(key) == IF key[1] = "i" THEN IndexValues ELSE RowValues

(***************************************************************************)
(* Plans and sessions                                                      *)
(***************************************************************************)
\* An index value of the plan (p.IndexValues[i]) with the column it targets:
\* v is the value it encodes to, col the column's type class, kind the
\* datum's kind class, conv the error its conversion to the column yields.
CastErrs == {"ErrOverflow", "ErrDataTooLong", "ErrTruncated", "ErrTruncatedWrongVal"}
IdxDatums ==
    {[v |-> 1, col |-> "other", kind |-> "int", conv |-> Nil]}
    \cup {[v |-> 1, col |-> "other", kind |-> "int", conv |-> c] :
            c \in CastErrs \cup {"ErrOther", "ErrEncodeKey"}}
    \cup {[v |-> 1, col |-> "string", kind |-> "string", conv |-> c] : c \in {Nil, "ErrOther"}}
    \cup {[v |-> 1, col |-> "enum", kind |-> "string", conv |-> c] :
            c \in {Nil, "ErrToString", "ErrParseEnum"}}
    \cup {[v |-> 1, col |-> "enum", kind |-> "int", conv |-> "ErrTruncated"]}

OkDatum == [v |-> 1, col |-> "other", kind |-> "int", conv |-> Nil]
\* One-column indexes over every datum; two-column indexes whose second
\* value fails to convert, and one whose values both convert.
IdxValsChoices ==
    {<<d>> : d \in IdxDatums}
    \cup {<<OkDatum, d>> : d \in {x \in IdxDatums :
                                  x.conv \in {"ErrOverflow", "ErrOther", "ErrParseEnum"}}}
    \cup {<<OkDatum, OkDatum>>}

\* idxInfo: "nil" (handle read), "unique" (non-clustered unique index),
\* "global" (non-clustered unique global index), "clustered" (the primary
\* index of a common-handle table).
PointGetPlans ==
    {[idxInfo |-> "nil", idxVals |-> <<>>, handle |-> h, lock |-> l, temp |-> t,
      partitionDef |-> pd, lockWaitTime |-> 1] :
        h \in Handles, l \in BOOLEAN, t \in BOOLEAN, pd \in {"nil", PartID}}
    \cup
    {[idxInfo |-> ix, idxVals |-> iv, handle |-> 0, lock |-> l, temp |-> t,
      partitionDef |-> pd, lockWaitTime |-> 1] :
        ix \in {"unique", "global", "clustered"}, iv \in IdxValsChoices,
        l \in BOOLEAN, t \in BOOLEAN, pd \in {"nil", PartID}}

\* rc: IsPessimisticReadConsistency(); weak: StmtCtx.WeakConsistency;
\* txnWritable: txn.Valid() && !txn.IsReadOnly().
Sessions == [rc : BOOLEAN, weak : BOOLEAN, txnWritable : BOOLEAN]

(***************************************************************************)
(* EncodeUniqueIndexValuesForKey, EncodeUniqueIndexKey                     *)
(***************************************************************************)
\* ConvertIdxValErr that returns a cast error as it is (567-570 left out).
ConvertIdxValErr_CastErrReturned(d) ==
    IF d.col = "string"
    THEN (IF d.conv = "ErrOther" THEN d.conv ELSE Nil)
    ELSE IF d.col = "enum" /\ d.kind = "string"
    THEN (IF d.conv \in {"ErrToString", "ErrParseEnum"} THEN ErrNotExist ELSE Nil)
    ELSE IF d.conv \in CastErrs \cup {"ErrOther"} THEN d.conv ELSE Nil

\* The error the loop body leaves in err for idxVals[i] (point_get.go 547-571).
ConvertIdxValErr(d) ==
    IF d.col = "string"
    THEN (IF d.conv = "ErrOther" THEN d.conv ELSE Nil)
    ELSE IF d.col = "enum" /\ d.kind = "string"
    THEN (IF d.conv \in {"ErrToString", "ErrParseEnum"} THEN ErrNotExist ELSE Nil)
    ELSE IF d.conv \in CastErrs
    THEN ErrNotExist
    ELSE IF d.conv = "ErrOther" THEN d.conv ELSE Nil

RECURSIVE EncodeLoop(_, _)
EncodeLoop(idxVals, i) ==
    IF i > Len(idxVals)
    THEN [bytes |-> <<>>, err |-> Nil]
    ELSE LET err == ConvertIdxValErr(idxVals[i])
         IN IF err # Nil
            THEN [bytes |-> NoKey, err |-> err]
            ELSE LET rest == EncodeLoop(idxVals, i + 1)
                 IN IF rest.err # Nil
                    THEN rest
                    ELSE [bytes |-> <<idxVals[i].v>> \o rest.bytes, err |-> Nil]

\* codec.EncodeKey followed by sc.HandleError (577-581).
EncodeUniqueIndexValuesForKey(idxVals) ==
    LET r == EncodeLoop(idxVals, 1)
    IN IF r.err # Nil
       THEN r
       ELSE IF \E i \in 1..Len(idxVals) : idxVals[i].conv = "ErrEncodeKey"
       THEN [bytes |-> NoKey, err |-> "ErrEncodeKey"]
       ELSE r

EncodeUniqueIndexKey(idxVals, tID) ==
    LET r == EncodeUniqueIndexValuesForKey(idxVals)
    IN IF r.err # Nil
       THEN [key |-> NoKey, err |-> r.err]
       ELSE [key |-> EncodeIndexSeekKey(tID, r.bytes), err |-> Nil]

(***************************************************************************)
(* The transaction / storage collaborator                                  *)
(***************************************************************************)
\* Answers of txn.GetMemBuffer().Get: a buffered value (empty for a key the
\* transaction deleted), a miss, a failure.
MemBufferGet(key) ==
    {[val |-> v, err |-> Nil] : v \in ValuesOf(key) \cup {NoVal}}
    \cup {[val |-> NoVal, err |-> ErrNotFound], [val |-> NoVal, err |-> "ErrMemBuffer"]}

\* Answers of snapshot.Get: a value, kv.ErrNotExist, a failure.
SnapshotGet(key) ==
    {[val |-> v, err |-> Nil] : v \in ValuesOf(key)}
    \cup {[val |-> NoVal, err |-> ErrNotExist], [val |-> NoVal, err |-> "ErrSnapshot"]}

\* Answers of doLockKeys for one key with ReturnValues set: a failure, or the
\* key's entry of lockCtx.Values.  A key the transaction already holds is
\* reported AlreadyLocked without a value.
LockResponses(lockedKeys, key) ==
    {[err |-> "ErrLock", exists |-> FALSE, alreadyLocked |-> FALSE, val |-> NoVal]}
    \cup (IF key \in lockedKeys
          THEN {[err |-> Nil, exists |-> FALSE, alreadyLocked |-> TRUE, val |-> NoVal]}
          ELSE {[err |-> Nil, exists |-> TRUE, alreadyLocked |-> FALSE, val |-> v] :
                    v \in ValuesOf(key)}
               \cup {[err |-> Nil, exists |-> FALSE, alreadyLocked |-> FALSE, val |-> NoVal]})

\* The keys held after the request: with LockOnlyIfExists a key without a
\* value is not locked.
LockedAfter(lockedKeys, key, lockOnlyIfExists, r) ==
    IF r.err # Nil \/ r.alreadyLocked \/ (lockOnlyIfExists /\ ~r.exists)
    THEN lockedKeys
    ELSE lockedKeys \cup {key}

\* TxnCtx.SetPessimisticLockCache / GetKeyInPessimisticLockCache: a map.
SetPessimisticLockCache(c, k, v) == {x \in c : x[1] # k} \cup {<<k, v>>}
InPessimisticLockCache(c, k) == \E x \in c : x[1] = k
GetKeyInPessimisticLockCache(c, k) == (CHOOSE x \in c : x[1] = k)[2]

(***************************************************************************)
(* PointGetExecutor: get, lockKeyBase, getAndLock                          *)
(*                                                                         *)
(* st = [e, cache, locked, tr] is the executor with the transaction state  *)
(* it writes and the requests issued so far; each operator yields the set  *)
(* of its possible returns [st, val, err].                                 *)
(***************************************************************************)
Ret(st, val, err) == [st |-> st, val |-> val, err |-> err]
Log(st, ev) == [st EXCEPT !.tr = Append(@, ev)]
ReadEv(src, key, r) == [op |-> src, key |-> key, val |-> r.val, err |-> r.err]

snapshotGet(st, key) ==
    {Ret(Log(st, ReadEv("snapshot", key, r)), r.val, r.err) : r \in SnapshotGet(key)}

\* get that consults the pessimistic-lock cache whether or not e.lock is set.
get_CacheUnlocked(st, key) ==
    IF Len(key) = 0
    THEN {Ret(st, NoVal, ErrNotExist)}
    ELSE IF sess.txnWritable
    THEN UNION {
            LET s1 == Log(st, ReadEv("membuffer", key, m))
            IN IF m.err = Nil
               THEN {Ret(s1, m.val, Nil)}
               ELSE IF m.err # ErrNotFound
               THEN {Ret(s1, NoVal, m.err)}
               ELSE IF InPessimisticLockCache(st.cache, key)
               THEN LET v == GetKeyInPessimisticLockCache(st.cache, key)
                    IN {Ret(Log(s1, [op |-> "lockcache", key |-> key, val |-> v, err |-> Nil]),
                            v, Nil)}
               ELSE snapshotGet(s1, key)
            : m \in MemBufferGet(key)}
    ELSE snapshotGet(st, key)

get(st, key) ==
    IF Len(key) = 0
    THEN {Ret(st, NoVal, ErrNotExist)}
    ELSE IF sess.txnWritable
    THEN UNION {
            LET s1 == Log(st, ReadEv("membuffer", key, m))
            IN IF m.err = Nil
               THEN {Ret(s1, m.val, Nil)}
               ELSE IF m.err # ErrNotFound
               THEN {Ret(s1, NoVal, m.err)}
               ELSE IF st.e.lock /\ InPessimisticLockCache(st.cache, key)
               THEN LET v == GetKeyInPessimisticLockCache(st.cache, key)
                    IN {Ret(Log(s1, [op |-> "lockcache", key |-> key, val |-> v, err |-> Nil]),
                            v, Nil)}
               ELSE snapshotGet(s1, key)
            : m \in MemBufferGet(key)}
    ELSE snapshotGet(st, key)

\* A get whose kv.ErrNotExist is turned into (nil, nil).
getOrNil(st, key) ==
    {IF o.err = ErrNotExist THEN Ret(o.st, NoVal, Nil)
     ELSE IF o.err # Nil THEN Ret(o.st, NoVal, o.err)
     ELSE o : o \in get(st, key)}

getValueFromLockCtx(st, r, key) ==
    IF r.exists
    THEN {Ret(st, r.val, Nil)}
    ELSE IF r.alreadyLocked
    THEN getOrNil(st, key)
    ELSE {Ret(st, NoVal, Nil)}

lockKeyBase(st, key, lockOnlyIfExists) ==
    IF Len(key) = 0
    THEN {Ret(st, NoVal, Nil)}
    ELSE IF st.e.lock
    THEN {Ret(st, NoVal, "ErrLockCtx")}
         \cup UNION {
            LET s1 == Log(st, [op |-> "lock", key |-> key,
                               lockOnlyIfExists |-> lockOnlyIfExists,
                               exists |-> r.exists, alreadyLocked |-> r.alreadyLocked,
                               val |-> r.val, err |-> r.err,
                               waitTime |-> st.e.lockWaitTime,
                               cached |-> IF r.err = Nil /\ Len(st.e.handleVal) > 0
                                          THEN <<st.e.idxKey, st.e.handleVal>>
                                          ELSE <<>>])
            IN IF r.err # Nil
               THEN {Ret(s1, NoVal, r.err)}
               ELSE LET c1 == IF r.alreadyLocked THEN s1.cache
                              ELSE SetPessimisticLockCache(s1.cache, key, r.val)
                        c2 == IF Len(s1.e.handleVal) > 0
                              THEN SetPessimisticLockCache(c1, s1.e.idxKey, s1.e.handleVal)
                              ELSE c1
                        s2 == [s1 EXCEPT !.cache = c2,
                                         !.locked = LockedAfter(@, key, lockOnlyIfExists, r)]
                    IN IF lockOnlyIfExists
                       THEN getValueFromLockCtx(s2, r, key)
                       ELSE {Ret(s2, NoVal, Nil)}
            : r \in LockResponses(st.locked, key)}
    ELSE {Ret(st, NoVal, Nil)}

lockKeyIfNeeded(st, key) == lockKeyBase(st, key, FALSE)
\* lockKeyIfExists that locks the key whether or not it exists.
lockKeyIfExists_Unconditional(st, key) == lockKeyBase(st, key, FALSE)
lockKeyIfExists(st, key) == lockKeyBase(st, key, TRUE)

\* getAndLock with the repeatable-read branch reordered: get, then lock.
getAndLock_GetBeforeLock(st, key) ==
    IF sess.rc
    THEN (IF st.e.lock THEN lockKeyIfExists(st, key) ELSE getOrNil(st, key))
    ELSE UNION {IF g.err # Nil
                THEN {g}
                ELSE {Ret(l.st, g.val, l.err) : l \in lockKeyIfNeeded(g.st, key)}
                : g \in getOrNil(st, key)}

\* lock-then-get (repeatable read), or lock-if-exists / plain get (read committed).
getAndLock(st, key) ==
    IF sess.rc
    THEN (IF st.e.lock THEN lockKeyIfExists(st, key) ELSE getOrNil(st, key))
    ELSE UNION {IF l.err # Nil THEN {Ret(l.st, NoVal, l.err)} ELSE getOrNil(l.st, key)
                : l \in lockKeyIfNeeded(st, key)}

(***************************************************************************)
(* PointGetExecutor.Next                                                   *)
(***************************************************************************)
\* isCommonHandleRead(tblInfo, idxInfo): the index is the clustered primary key.
isCommonHandleRead(ex) == ex.idxInfo = "clustered"

\* tablecodec.DecodeHandleInUniqueIndexValue, SplitIndexValue + DecodeInt.
DecodeHandleInUniqueIndexValue(handleVal) ==
    IF handleVal[1] = "h"
    THEN [handle |-> handleVal[2], err |-> Nil]
    ELSE [handle |-> 0, err |-> "ErrDecodeHandle"]
PartitionIDOf(handleVal) == handleVal[3]

Stop(st, err) == [st |-> st, stop |-> TRUE, err |-> err, tblID |-> ""]
Go(st, tblID) == [st |-> st, stop |-> FALSE, err |-> Nil, tblID |-> tblID]

\* Lines 275-306: the index value in e.handleVal is turned into the handle.
afterIndexRead(st, tblID) ==
    IF Len(st.e.handleVal) = 0
    THEN Stop(st, Nil)
    ELSE LET iv == DecodeHandleInUniqueIndexValue(st.e.handleVal)
         IN IF iv.err # Nil
            THEN Stop(st, iv.err)
            ELSE Go([st EXCEPT !.e.handle = iv.handle],
                    IF st.e.idxInfo = "global" THEN PartitionIDOf(st.e.handleVal) ELSE tblID)

\* lockThenReadIndex that takes every error of the read for a missing key.
lockThenReadIndex_ErrIgnored(st) ==
    UNION {IF l.err # Nil
           THEN {Ret(l.st, NoVal, l.err)}
           ELSE {Ret([g.st EXCEPT !.e.handleVal = g.val], g.val, Nil)
                 : g \in get(l.st, l.st.e.idxKey)}
           : l \in lockKeyIfNeeded(st, st.e.idxKey)}

\* Lines 248-258: lock the index key whether or not it exists, then read it.
lockThenReadIndex(st) ==
    UNION {IF l.err # Nil
           THEN {Ret(l.st, NoVal, l.err)}
           ELSE {IF g.err \notin {Nil, ErrNotExist}
                 THEN Ret([g.st EXCEPT !.e.handleVal = NoVal], NoVal, g.err)
                 ELSE Ret([g.st EXCEPT !.e.handleVal = g.val], g.val, Nil)
                 : g \in get(l.st, l.st.e.idxKey)}
           : l \in lockKeyIfNeeded(st, st.e.idxKey)}

\* Lines 259-273: lock the index key only if it exists, or read it unlocked.
readIndexReadCommitted(st) ==
    IF st.e.lock
    THEN {Ret([l.st EXCEPT !.e.handleVal = l.val], l.val, l.err)
          : l \in lockKeyIfExists(st, st.e.idxKey)}
    ELSE {IF g.err \notin {Nil, ErrNotExist}
          THEN Ret([g.st EXCEPT !.e.handleVal = NoVal], NoVal, g.err)
          ELSE Ret([g.st EXCEPT !.e.handleVal = g.val], g.val, Nil)
          : g \in get(st, st.e.idxKey)}

\* Lines 225-308.
indexStage(st, tblID) ==
    IF st.e.idxInfo = "nil"
    THEN {Go(st, tblID)}
    ELSE IF isCommonHandleRead(st.e)
    THEN LET enc == EncodeUniqueIndexValuesForKey(st.e.idxVals)
         IN IF enc.err # Nil
            THEN {Stop(st, IF enc.err = ErrNotExist THEN Nil ELSE enc.err)}
            ELSE {Go([st EXCEPT !.e.handle = <<"common", enc.bytes>>], tblID)}
    ELSE LET k == EncodeUniqueIndexKey(st.e.idxVals, tblID)
             s1 == [st EXCEPT !.e.idxKey = k.key]
             lockNonExistIdxKey == ~sess.rc
         IN IF k.err \notin {Nil, ErrNotExist}
            THEN {Stop(s1, k.err)}
            ELSE {IF r.err # Nil THEN Stop(r.st, r.err) ELSE afterIndexRead(r.st, tblID)
                  : r \in IF lockNonExistIdxKey
                          THEN lockThenReadIndex(s1)
                          ELSE readIndexReadCommitted(s1)}

\* A return of Next: the error, the rows in the chunk, and the value the row
\* key was found to have (Unread when the row lookup did not complete).
Unread == <<"unread">>
Fin(st, err, rows, rowVal) == [st |-> st, err |-> err, rows |-> rows, rowVal |-> rowVal]

\* DecodeRowValToChunk, then table.FillVirtualColumnValue (337-347).
decodeRow(st, val) ==
    IF val = <<"badrow">>
    THEN {Fin(st, "ErrDecodeRow", 0, val)}
    ELSE {Fin(st, Nil, 1, val), Fin(st, "ErrVirtualColumn", 0, val)}

\* reportsInconsistency without the weak-consistency test.
reportsInconsistency_IgnoringWeak(ex) ==
    ex.idxInfo # "nil" /\ ~isCommonHandleRead(ex)

\* Lines 316-317: a missing row is reported when an index entry led to it.
reportsInconsistency(ex) ==
    ex.idxInfo # "nil" /\ ~isCommonHandleRead(ex) /\ ~sess.weak

\* Lines 310-347.
rowStage(st, tblID) ==
    LET key == EncodeRowKeyWithHandle(tblID, st.e.handle)
    IN UNION {IF o.err # Nil
              THEN {Fin(o.st, o.err, 0, Unread)}
              ELSE IF Len(o.val) = 0
              THEN (IF reportsInconsistency(st.e)
                    THEN {Fin(o.st, "ErrLookupInconsistent", 0, NoVal)}
                    ELSE {Fin(o.st, Nil, 0, NoVal)})
              ELSE decodeRow(o.st, o.val)
              : o \in getAndLock(st, key)}

\* Lines 215-347: the point read.
pointRead(st) ==
    LET tblID == IF st.e.partitionDef # "nil" THEN st.e.partitionDef ELSE TableID
    IN UNION {IF ix.stop THEN {Fin(ix.st, ix.err, 0, Unread)} ELSE rowStage(ix.st, ix.tblID)
              : ix \in indexStage(st, tblID)}

\* NextReturns without the assignment e.done = true.
NextReturns_DoneNotSet(st0) == pointRead(st0)

\* The returns of one Next call that found e.done false (213-347).
NextReturns(st0) == pointRead([st0 EXCEPT !.e.done = TRUE])

(***************************************************************************)
(* The executor's operations                                               *)
(***************************************************************************)
Returned(call, err) ==
    [call |-> call, err |-> err, rows |-> 0, rowVal |-> Unread, msg |-> <<>>,
     verified |-> <<>>]
NoResult == Returned("none", Nil)

\* Init that takes Lock and LockWaitTime from the plan for every table.
InitFields_TemporaryLocks(ex, p) ==
    [ex EXCEPT !.idxInfo = p.idxInfo, !.idxVals = p.idxVals, !.handle = p.handle,
               !.done = FALSE,
               !.lock = p.lock,
               !.lockWaitTime = p.lockWaitTime,
               !.partitionDef = p.partitionDef]

\* PointGetExecutor.Init: the fields it sets from the plan.
InitFields(ex, p) ==
    [ex EXCEPT !.idxInfo = p.idxInfo, !.idxVals = p.idxVals, !.handle = p.handle,
               !.done = FALSE,
               !.lock = IF ~p.temp THEN p.lock ELSE FALSE,
               !.lockWaitTime = IF ~p.temp THEN p.lockWaitTime ELSE 0,
               !.partitionDef = p.partitionDef]

\* A PointGetExecutor as buildPointGet allocates it, before e.Init(p).
NewExecutor ==
    [idxInfo |-> "nil", idxVals |-> <<>>, handle |-> 0, done |-> FALSE, lock |-> FALSE,
     partitionDef |-> "nil", idxKey |-> NoKey, handleVal |-> NoVal, txn |-> FALSE,
     txnScope |-> "", lockWaitTime |-> 0]

NoQuery == [kind |-> "none"]

\* buildPointGet: a fresh executor initialised with the plan.
Built ==
    /\ plan \in PointGetPlans
    /\ sess \in Sessions
    /\ e = InitFields(NewExecutor, plan)
    /\ phase = "unopened"
    /\ lockCache = {}
    /\ locked = {}
    /\ trace = <<>>
    /\ result = NoResult
    /\ hist = [nexts |-> 0, closed |-> FALSE, lockedBefore |-> {},
               first |-> [err |-> Nil, rows |-> 0]]
    /\ q = NoQuery
    /\ fp = NoQuery

\* kv.GlobalTxnScope.
GlobalTxnScope == "global"
\* The session's info schema: the names TableByID and FindTableByPartitionID
\* give for the table and the partition.
TableName == "t"
PartitionName == "p0"
TableByID(tblID) == [name |-> TableName]
FindTableByPartitionID(pid) == [tblName |-> TableName, partName |-> PartitionName]
\* distsql.VerifyTxnScope: the placement of the table or partition lets the
\* scope read it.
VerifyTxnScope(txnScope, tblID, is) == tblID \in is.local

\* What verifyTxnScope returns, with the verifications it made on the way.
ScopeVerified(tblID, valid) == <<[id |-> tblID, valid |-> valid]>>
NoScopeErr(verified) == [err |-> Nil, msg |-> <<>>, verified |-> verified]
PlacementErr(msg, verified) ==
    [err |-> "ErrInvalidPlacementPolicyCheck", msg |-> msg, verified |-> verified]

\* verifyTxnScope that verifies the table id also when a partition is set.
verifyTxnScope_TableID(ex, is) ==
    IF ex.txnScope = "" \/ ex.txnScope = GlobalTxnScope
    THEN NoScopeErr(<<>>)
    ELSE LET partName == IF ex.partitionDef # "nil"
                         THEN FindTableByPartitionID(ex.partitionDef).partName ELSE ""
             valid == VerifyTxnScope(ex.txnScope, TableID, is)
             v == ScopeVerified(TableID, valid)
         IN IF valid
            THEN NoScopeErr(v)
            ELSE IF Len(partName) > 0
            THEN PlacementErr(<<"table", TableName, "partition", partName, ex.txnScope>>, v)
            ELSE PlacementErr(<<"table", TableName, ex.txnScope>>, v)

verifyTxnScope(ex, is) ==
    IF ex.txnScope = "" \/ ex.txnScope = GlobalTxnScope
    THEN NoScopeErr(<<>>)
    ELSE LET tblID == IF ex.partitionDef # "nil" THEN ex.partitionDef ELSE TableID
             tblName == IF ex.partitionDef # "nil"
                        THEN FindTableByPartitionID(tblID).tblName
                        ELSE TableByID(tblID).name
             partName == IF ex.partitionDef # "nil"
                         THEN FindTableByPartitionID(tblID).partName ELSE ""
             valid == VerifyTxnScope(ex.txnScope, tblID, is)
             v == ScopeVerified(tblID, valid)
         IN IF valid
            THEN NoScopeErr(v)
            ELSE IF Len(partName) > 0
            THEN PlacementErr(<<"table", tblName, "partition", partName, ex.txnScope>>, v)
            ELSE PlacementErr(<<"table", tblName, ex.txnScope>>, v)

Open ==
    /\ phase \in {"unopened", "closed"}
    /\ \E txnErr \in {Nil, "ErrTxn"} :
         LET r == IF txnErr # Nil THEN [err |-> txnErr, msg |-> <<>>, verified |-> <<>>]
                  ELSE verifyTxnScope(e, sess)
         IN /\ result' = [Returned("Open", r.err) EXCEPT !.msg = r.msg,
                                                       !.verified = r.verified]
            /\ e' = [e EXCEPT !.txn = (txnErr = Nil)]
            /\ phase' = IF r.err = Nil THEN "opened" ELSE phase
    /\ trace' = <<>>
    /\ hist' = [hist EXCEPT !.nexts = 0, !.lockedBefore = {},
                            !.first = [err |-> Nil, rows |-> 0]]
    /\ UNCHANGED <<plan, sess, lockCache, locked, q, fp>>

Next ==
    /\ phase = "opened"
    /\ hist.nexts < MaxNext
    /\ IF e.done
       THEN /\ trace' = <<>>
            /\ result' = Returned("Next", Nil)
            /\ hist' = [hist EXCEPT !.nexts = @ + 1]
            /\ UNCHANGED <<e, lockCache, locked>>
       ELSE \E o \in NextReturns([e |-> e, cache |-> lockCache, locked |-> locked,
                                  tr |-> <<>>]) :
              /\ e' = o.st.e
              /\ lockCache' = o.st.cache
              /\ locked' = o.st.locked
              /\ trace' = o.st.tr
              /\ result' = [call |-> "Next", err |-> o.err, rows |-> o.rows,
                             rowVal |-> o.rowVal, msg |-> <<>>,
                             verified |-> <<>>]
              /\ hist' = [hist EXCEPT !.nexts = @ + 1, !.lockedBefore = locked,
                                      !.first = [err |-> o.err, rows |-> o.rows]]
    /\ UNCHANGED <<plan, sess, phase, q, fp>>

\* Close without the assignment e.done = false.
Close_DoneKept ==
    /\ phase = "opened"
    /\ phase' = "closed"
    /\ trace' = <<>>
    /\ result' = Returned("Close", Nil)
    /\ hist' = [hist EXCEPT !.closed = TRUE]
    /\ UNCHANGED <<plan, sess, e, lockCache, locked, q, fp>>

Close ==
    /\ phase = "opened"
    /\ e' = [e EXCEPT !.done = FALSE]
    /\ phase' = "closed"
    /\ trace' = <<>>
    /\ result' = Returned("Close", Nil)
    /\ hist' = [hist EXCEPT !.closed = TRUE]
    /\ UNCHANGED <<plan, sess, lockCache, locked, q, fp>>

ExecStep ==
    \/ Open
    \/ Next
    \/ Close

Spec == Built /\ [][ExecStep]_vars

(***************************************************************************)
(* Properties of the executor                                              *)
(***************************************************************************)
IsLock(ev) == ev.op = "lock"
IsRead(ev) == ev.op \in {"membuffer", "lockcache", "snapshot"}
Executed == result.call = "Next" /\ hist.nexts = 1

\* Every read in the trace follows an unconditional lock request for its key.
LockPrecedesEveryRead ==
    \A i \in 1..Len(trace) :
        IsRead(trace[i]) =>
            \E j \in 1..(i - 1) :
                /\ IsLock(trace[j])
                /\ trace[j].key = trace[i].key
                /\ ~trace[j].lockOnlyIfExists

\* C1 as stated: when the plan requests locking (plan.lock) and the session is
\* not in pessimistic read-committed mode, every read Next issues for a key
\* comes after the lock request for that key, which locks the key whether or
\* not it exists.
C1_LockBeforeRead_AsStated ==
    (plan.lock /\ ~sess.rc /\ result.call = "Next") => LockPrecedesEveryRead

\* C1 amended: the same, for a plan on a table that is not a temporary table
\* (Init clears the lock flag of a temporary table's executor, which then
\* reads without locking).
C1_LockBeforeRead ==
    (plan.lock /\ ~plan.temp /\ ~sess.rc /\ result.call = "Next") => LockPrecedesEveryRead

\* C1 witness: a locking repeatable-read execution through a unique index
\* that locked and read the index key, then locked and read the row key, and
\* returned the row.
C1_Witness ==
    /\ plan.lock /\ ~plan.temp /\ ~sess.rc /\ Executed
    /\ plan.idxInfo = "unique"
    /\ result.rows = 1
    /\ \E i, j, k, l \in 1..Len(trace) :
          /\ i < j /\ j < k /\ k < l
          /\ IsLock(trace[i]) /\ trace[i].key = e.idxKey
          /\ IsRead(trace[j]) /\ trace[j].key = e.idxKey
          /\ IsLock(trace[k]) /\ trace[k].key[1] = "r"
          /\ IsRead(trace[l]) /\ trace[l].key = trace[k].key

\* The value a key was taken to have after a lock-if-exists request: the value
\* the request returned, or for a key reported as already locked the value of
\* the last read issued for it after the request (none if it was not found).
LastEventOn(key) ==
    CHOOSE i \in 1..Len(trace) :
        trace[i].key = key /\ \A j \in (i + 1)..Len(trace) : trace[j].key # key
ValueAfterLock(key) ==
    LET i == CHOOSE n \in 1..Len(trace) : IsLock(trace[n]) /\ trace[n].key = key
    IN IF trace[i].exists THEN trace[i].val
       ELSE IF trace[i].alreadyLocked /\ LastEventOn(key) > i THEN trace[LastEventOn(key)].val
       ELSE NoVal
LockedOk(key) ==
    /\ \E i \in 1..Len(trace) : IsLock(trace[i]) /\ trace[i].key = key /\ trace[i].err = Nil
    /\ \A i \in 1..Len(trace) : trace[i].key = key => trace[i].err \in {Nil, ErrNotExist, ErrNotFound}

\* C2: when the plan requests locking and the session is in pessimistic
\* read-committed mode, every lock request of Next carries LockOnlyIfExists;
\* every key the call newly holds a lock on was reported to exist; and the
\* value used for the index key (e.handleVal) and for the row key is the one
\* the lock request returned, or the one read after it when the key was
\* reported as already locked.
C2_LockOnlyIfExists ==
    (plan.lock /\ sess.rc /\ Executed) =>
        /\ \A i \in 1..Len(trace) : IsLock(trace[i]) => trace[i].lockOnlyIfExists
        /\ \A k \in locked \ hist.lockedBefore :
              \E i \in 1..Len(trace) :
                  IsLock(trace[i]) /\ trace[i].key = k /\ trace[i].exists
                  /\ Len(trace[i].val) > 0
        /\ \A i \in 1..Len(trace) :
              (IsLock(trace[i]) /\ LockedOk(trace[i].key)) =>
                  IF trace[i].key[1] = "i"
                  THEN e.handleVal = ValueAfterLock(trace[i].key)
                  ELSE result.rowVal = ValueAfterLock(trace[i].key)

\* C2 witness: a read-committed locking execution whose index key was already
\* locked, so its value came from a read after the request, and whose row key
\* was locked because it exists.
C2_Witness ==
    /\ plan.lock /\ sess.rc /\ Executed /\ result.rows = 1
    /\ \E i, j \in 1..Len(trace) :
          /\ i < j
          /\ IsLock(trace[i]) /\ trace[i].key = e.idxKey /\ trace[i].alreadyLocked
          /\ IsLock(trace[j]) /\ trace[j].key[1] = "r" /\ trace[j].exists
          /\ trace[j].key \in locked \ hist.lockedBefore

\* C3: of the Next calls made after one Open, only the first issues lock
\* requests or reads or produces a row; each later one returns an empty chunk
\* and no error.
C3_OnlyFirstNextExecutes ==
    (result.call = "Next" /\ hist.nexts >= 2) =>
        trace = <<>> /\ result.err = Nil /\ result.rows = 0

\* C3 witness: a second Next call after a first one that returned an error.
C3_Witness ==
    result.call = "Next" /\ hist.nexts >= 2 /\ hist.first.err # Nil

\* C4 as stated: once Close has been called, no later Next call issues a lock
\* request or a read or produces a row.
C4_ClosedIsTerminal_AsStated ==
    (hist.closed /\ result.call = "Next") => (trace = <<>> /\ result.rows = 0)

\* C4 amended: Close clears the done flag, so the executor can be opened again;
\* after Close only the first Next call of each later opening issues lock
\* requests or reads or produces a row.
C4_CloseResetsDone ==
    /\ phase = "closed" => ~e.done
    /\ (hist.closed /\ result.call = "Next" /\ (trace # <<>> \/ result.rows > 0))
          => hist.nexts = 1

\* C4 witness: a Next call after Close that issued requests and produced a row.
C4_Witness ==
    hist.closed /\ result.call = "Next" /\ trace # <<>> /\ result.rows = 1

\* C5: Next returns the index/row inconsistency report exactly when a
\* non-clustered unique-index entry was found, the row key built from it has
\* no value, and the statement is not in weak-consistency mode; when the row
\* lookup finds no value on any other path the result is empty, and when the
\* index key has no entry the result is empty with no report.
C5_InconsistencyReport ==
    Executed =>
        /\ result.err = "ErrLookupInconsistent" <=>
              /\ plan.idxInfo \in {"unique", "global"}
              /\ Len(e.handleVal) > 0
              /\ result.rowVal = NoVal
              /\ ~sess.weak
        /\ (result.rowVal = NoVal /\ result.err # "ErrLookupInconsistent")
              => (result.err = Nil /\ result.rows = 0)
        /\ (plan.idxInfo \in {"unique", "global"} /\ Len(e.handleVal) = 0
            /\ \E i \in 1..Len(trace) : trace[i].key = e.idxKey /\ Len(e.idxKey) > 0)
              => (result.rowVal = Unread /\ result.rows = 0
                  /\ result.err # "ErrLookupInconsistent")

\* C5 witness: an index entry was found, its row is missing, and the report is
\* returned.
C5_Witness ==
    /\ Executed /\ result.err = "ErrLookupInconsistent"
    /\ plan.idxInfo = "unique" /\ Len(e.handleVal) > 0 /\ result.rowVal = NoVal

\* The plan's index values hold one whose conversion proves that no stored
\* value can match, and every value before it converts.
CannotExist(d) ==
    \/ d.col = "enum" /\ d.kind = "string" /\ d.conv \in {"ErrToString", "ErrParseEnum"}
    \/ d.col \notin {"string"} /\ ~(d.col = "enum" /\ d.kind = "string") /\ d.conv \in CastErrs
Converts(d) == d.conv \in {Nil, "ErrEncodeKey"}
ValueCannotExist(idxVals) ==
    \E i \in 1..Len(idxVals) :
        CannotExist(idxVals[i]) /\ \A j \in 1..(i - 1) : Converts(idxVals[j])

\* C6: when encoding the plan's index values reports that the value cannot
\* exist, Next returns an empty result with no error and issues no lock
\* request and no read, for clustered and non-clustered unique indexes and
\* for every isolation / lock combination.
C6_CannotExistIsEmpty ==
    (result.call = "Next" /\ plan.idxInfo # "nil" /\ ValueCannotExist(plan.idxVals)) =>
        trace = <<>> /\ result.err = Nil /\ result.rows = 0

\* C6 witness: a locking execution over a two-column non-clustered index whose
\* second value overflows.
C6_Witness ==
    /\ Executed /\ plan.lock /\ ~plan.temp /\ plan.idxInfo = "unique"
    /\ Len(plan.idxVals) = 2 /\ plan.idxVals[2].conv = "ErrOverflow"
    /\ result.err = Nil /\ trace = <<>>

(***************************************************************************)
(* The point-plan resolver (planner/core point_get_plan.go)                *)
(*                                                                         *)
(* q holds the inputs of tryPointGetPlan: the table, the WHERE clause as   *)
(* the in-order leaves of its AND tree, the index hints, the PARTITION     *)
(* list, the session, and the latest schema; fp holds what it returned.    *)
(***************************************************************************)
MaxInt == 1             \* integer columns hold -(MaxInt+1)..MaxInt, unsigned 0..2*MaxInt+1
NumPartitions == 2      \* partitions p0..p(NumPartitions-1)

IntRange(unsigned) ==
    IF unsigned THEN 0..(2 * MaxInt + 1) ELSE (-(MaxInt + 1))..MaxInt
Abs(x) == IF x < 0 THEN -x ELSE x
\* The remainder of the floored division.
Rem_Floored(a, n) == a % n
\* Go's % on int64: the remainder of the truncated division.
Rem(a, n) == IF a >= 0 THEN a % n ELSE -((-a) % n)

\* A name as written: its text in lower case and whether it was written in capitals.
Spelled(text, caps) == [text |-> text, caps |-> caps]
ToLower(o) == [o EXCEPT !.caps = FALSE]
\* model.NewCIStr: the name as written (O) and in lower case (L).
CIStr(o) == [O |-> o, L |-> ToLower(o)]
NoName == Spelled("", FALSE)
\* The name of the partition definition at position pos: p0, p1, ...
DefName(def) == CIStr(Spelled(def[1], FALSE))

RowID == "_tidb_rowid"
\* The columns of a table: a, b, c are integers, s is a VARCHAR, f a BINARY(n)
\* (TypeString with the binary collation), g a CHAR(n) with another collation.
NoColumn == "nil"
ColType(colName) ==
    IF colName \in {"a", "b", "c"} THEN "int"
    ELSE IF colName = "s" THEN "varchar"
    ELSE IF colName = "f" THEN "binary"
    ELSE IF colName = "g" THEN "char"
    ELSE NoColumn
IsETString(colType) == colType \in {"varchar", "binary", "char"}
NumericKinds == {"int", "uint", "float", "decimal", "frac"}
PrimaryName == "primary"
IndexNames == <<"i1", "i2">>
NoHandle == <<>>
NoIndex == <<>>
NoPartition == <<>>

\* types.Datum.ConvertTo of an integer constant to an integer column type.
ConvertTo(d, unsigned) ==
    IF d.v \in IntRange(unsigned)
    THEN [val |-> d.v, err |-> Nil]
    ELSE [val |-> IF d.v < 0 THEN (IF unsigned THEN 0 ELSE -(MaxInt + 1))
                  ELSE (IF unsigned THEN 2 * MaxInt + 1 ELSE MaxInt),
          err |-> "ErrOverflow"]

\* dVal.Compare(&d): 0 when the converted value equals the constant.
Compare(val, d) == IF d.kind # "frac" /\ d.v = val THEN 0 ELSE 1

\* checkCanConvertInPointGet, for the column types that are modelled.
checkCanConvertInPointGet(colType, d) ==
    ~(IsETString(colType) /\ d.kind \in NumericKinds)

nameValuePair(colName, value) == [colName |-> colName, value |-> value]
NilPairs == [nil |-> TRUE, pairs |-> <<>>, dual |-> FALSE]
Pairs(pairs, isTableDual) == [nil |-> FALSE, pairs |-> pairs, dual |-> isTableDual]

ColUnsigned(tbl, colName) == tbl.pkIsHandle /\ colName = "a" /\ tbl.unsigned

\* getNameValuePairs on an equality leaf (1421-1503).  A leaf whose other side
\* is no constant leaves d the zero datum, which is NULL.
eqPairs(tbl, nvPairs, x) ==
    IF x.op # "eq" \/ x.kind \in {"null", "nonconst"}
    THEN NilPairs
    ELSE IF x.table # "" /\ x.table # "t"
    THEN NilPairs
    ELSE IF ColType(x.col) = NoColumn
    THEN Pairs(Append(nvPairs, nameValuePair(x.col, x.v)), FALSE)
    ELSE IF ColType(x.col) = "binary"
    THEN Pairs(Append(nvPairs, nameValuePair(x.col, x.v)), FALSE)
    ELSE IF ~checkCanConvertInPointGet(ColType(x.col), x)
    THEN NilPairs
    ELSE IF IsETString(ColType(x.col))
    THEN Pairs(Append(nvPairs, nameValuePair(x.col, x.v)), FALSE)
    ELSE LET c == ConvertTo(x, ColUnsigned(tbl, x.col))
         IN IF c.err = "ErrOverflow"
            THEN Pairs(Append(nvPairs, nameValuePair(x.col, x.v)), TRUE)
            ELSE IF c.err \notin {Nil, "ErrTruncatedWrongVal"}
            THEN NilPairs
            ELSE IF Compare(c.val, x) # 0
            THEN NilPairs
            ELSE Pairs(Append(nvPairs, nameValuePair(x.col, c.val)), FALSE)

\* An AND node that passes over the leaves that give no pair.
RECURSIVE andPairs_SkipFailed(_, _, _, _)
andPairs_SkipFailed(tbl, nvPairs, where, i) ==
    IF i > Len(where)
    THEN Pairs(nvPairs, FALSE)
    ELSE LET r == eqPairs(tbl, nvPairs, where[i])
         IN IF r.nil \/ r.dual
            THEN andPairs_SkipFailed(tbl, nvPairs, where, i + 1)
            ELSE andPairs_SkipFailed(tbl, r.pairs, where, i + 1)

\* getNameValuePairs on an AND node (1411-1420), over the leaves where[i..].
RECURSIVE andPairs(_, _, _, _)
andPairs(tbl, nvPairs, where, i) ==
    IF i > Len(where)
    THEN Pairs(nvPairs, FALSE)
    ELSE LET r == eqPairs(tbl, nvPairs, where[i])
         IN IF r.nil \/ r.dual
            THEN [nil |-> TRUE, pairs |-> <<>>, dual |-> r.dual]
            ELSE andPairs(tbl, r.pairs, where, i + 1)

getNameValuePairs(tbl, where) ==
    IF Len(where) = 0 THEN NilPairs
    ELSE IF Len(where) = 1 THEN eqPairs(tbl, <<>>, where[1])
    ELSE andPairs(tbl, <<>>, where, 1)

findInPairs(colName, pairs) ==
    IF \E i \in 1..Len(pairs) : pairs[i].colName = colName
    THEN CHOOSE i \in 1..Len(pairs) :
            pairs[i].colName = colName /\ \A j \in 1..(i - 1) : pairs[j].colName # colName
    ELSE 0

\* findPKHandle that takes the first pair for the handle pair.
findPKHandle_FirstPair(tbl, pairs) == IF Len(pairs) > 0 THEN 1 ELSE 0

\* findPKHandle: the index of the handle pair in pairs, 0 when there is none.
findPKHandle(tbl, pairs) ==
    IF ~tbl.pkIsHandle THEN findInPairs(RowID, pairs) ELSE findInPairs("a", pairs)

\* The default range partitions: upper bounds 0, 1, ...
LessThan(i) == i - 1
\* The order of two int64 read as uint64: a negative one is above every other.
UnsignedLess(a, b) == IF (a < 0) = (b < 0) THEN a < b ELSE b < 0
\* ForRangePruning.Compare that takes a bound equal to the value for a greater one.
RangeCompare_EqualIsGreater(part, i, val, unsigned) ==
    IF part.maxvalue /\ i = Len(part.lessThan) - 1 THEN 1
    ELSE IF part.lessThan[i + 1] = val THEN 1
    ELSE IF unsigned
    THEN (IF UnsignedLess(val, part.lessThan[i + 1]) THEN 1 ELSE -1)
    ELSE (IF part.lessThan[i + 1] > val THEN 1 ELSE -1)
\* ForRangePruning.Compare(i, val, unsigned): the i-th upper bound against val;
\* the last bound is MAXVALUE when maxvalue.
RangeCompare(part, i, val, unsigned) ==
    IF part.maxvalue /\ i = Len(part.lessThan) - 1 THEN 1
    ELSE IF part.lessThan[i + 1] = val THEN 0
    ELSE IF unsigned
    THEN (IF UnsignedLess(val, part.lessThan[i + 1]) THEN 1 ELSE -1)
    ELSE (IF part.lessThan[i + 1] > val THEN 1 ELSE -1)

\* sort.Search(n, f) with f(h) = RangeCompare(h) > 0.
RECURSIVE Search(_, _, _, _, _)
Search(i, j, part, val, unsigned) ==
    IF i >= j THEN i
    ELSE LET h == (i + j) \div 2
         IN IF ~(RangeCompare(part, h, val, unsigned) > 0)
            THEN Search(h + 1, j, part, val, unsigned)
            ELSE Search(i, h, part, val, unsigned)

\* ForListPruning.LocatePartition: partition i lists the value i.
LocatePartition(val) == IF val \in 0..(NumPartitions - 1) THEN val ELSE -1

PartDef(def, idx, isTableDual) == [def |-> def, idx |-> idx, dual |-> isTableDual]
NoPartDef == PartDef(NoPartition, 0, FALSE)

\* getPartitionDef: the partition of the first pair on the partition column.
getPartitionDef(query, pairs) ==
    LET part == query.tbl.part
        i == findInPairs(part.col, pairs)
    IN IF part.type \notin {"hash", "key", "range", "list"} \/ i = 0
       THEN NoPartDef
       ELSE LET val == pairs[i].value
            IN IF part.type = "hash"
               THEN PartDef(<<Abs(Rem(val, part.num))>>, i, FALSE)
               ELSE IF part.type = "key"
               THEN (IF query.keyPos < 0 THEN NoPartDef
                     ELSE PartDef(<<query.keyPos>>, i, FALSE))
               ELSE IF part.type = "range"
               THEN LET length == Len(part.lessThan)
                        pos == Search(0, length, part, val,
                                      ColUnsigned(query.tbl, part.col))
                    IN IF pos >= 0 /\ pos < length
                       THEN PartDef(<<pos>>, i, FALSE)
                       ELSE PartDef(NoPartition, 0, TRUE)
               ELSE LET pos == LocatePartition(val)
                    IN IF pos >= 0
                       THEN PartDef(<<pos>>, i, FALSE)
                       ELSE PartDef(NoPartition, 0, TRUE)

partitionNameInSet_CaseSensitive(def, pnames) ==
    \E pname \in pnames : DefName(def).O = pname.O
\* partitionNameInSet: the lower-case names are compared.
partitionNameInSet(def, pnames) ==
    \E pname \in pnames : DefName(def).L = pname.L

RECURSIVE hintLoop(_, _, _, _)
hintLoop(name, idxHints, i, isIgnore) ==
    IF i > Len(idxHints)
    THEN isIgnore
    ELSE LET hint == idxHints[i]
         IN IF hint.scope # "scan"
            THEN hintLoop(name, idxHints, i + 1, isIgnore)
            ELSE IF hint.type = "ignore" /\ hint.names # {}
            THEN (IF name \in hint.names THEN FALSE
                  ELSE hintLoop(name, idxHints, i + 1, TRUE))
            ELSE IF hint.type \in {"force", "use"} /\ hint.names # {}
            THEN (IF name \in hint.names THEN TRUE
                  ELSE hintLoop(name, idxHints, i + 1, isIgnore))
            ELSE hintLoop(name, idxHints, i + 1, isIgnore)

\* indexIsAvailableByHints; the primary key goes by the name "primary".
indexIsAvailableByHints(name, idxHints) ==
    IF Len(idxHints) = 0 THEN TRUE ELSE hintLoop(name, idxHints, 1, FALSE)

\* getIndexValues without the test that the pairs are as many as the index columns.
getIndexValues_NoLenTest(idxInfo, pairs) ==
    IF idxInfo.prefix
       \/ \E c \in 1..Len(idxInfo.cols) : findInPairs(idxInfo.cols[c], pairs) = 0
       \/ Len(idxInfo.cols) = 0
    THEN [nil |-> TRUE, vals |-> <<>>]
    ELSE [nil |-> FALSE,
          vals |-> [c \in 1..Len(idxInfo.cols) |->
                        pairs[findInPairs(idxInfo.cols[c], pairs)].value]]

\* getIndexValues: one value per index column, in index-column order.
getIndexValues(idxInfo, pairs) ==
    IF Len(idxInfo.cols) # Len(pairs) \/ idxInfo.prefix
       \/ \E c \in 1..Len(idxInfo.cols) : findInPairs(idxInfo.cols[c], pairs) = 0
       \/ Len(idxInfo.cols) = 0
    THEN [nil |-> TRUE, vals |-> <<>>]
    ELSE [nil |-> FALSE,
          vals |-> [c \in 1..Len(idxInfo.cols) |->
                        pairs[findInPairs(idxInfo.cols[c], pairs)].value]]

findPartitionIdx(idxInfo, pos, pairs) ==
    IF \E i \in 1..Len(idxInfo.cols) : idxInfo.cols[i] = pairs[pos].colName
    THEN (CHOOSE i \in 1..Len(idxInfo.cols) :
            /\ idxInfo.cols[i] = pairs[pos].colName
            /\ \A j \in 1..(i - 1) : idxInfo.cols[j] # pairs[pos].colName) - 1
    ELSE 0

\* A returned plan carries, in call, the arguments of the checkTblIndexForPointPlan
\* call that produced it (NoCall when tryPointGetPlan returned it itself).
NoCall == [fn |-> "none"]
NilPlan == [kind |-> "nil", call |-> NoCall]

\* newPointGetPlan: a PointGetPlan with only the table set.
newPointGetPlan ==
    [kind |-> "plan", IsTableDual |-> FALSE, Handle |-> NoHandle, UnsignedHandle |-> FALSE,
     IndexInfo |-> NoIndex, IndexValues |-> <<>>, PartitionDef |-> NoPartition,
     partitionColumnPos |-> 0, dbName |-> NoName, call |-> NoCall]
\* The table-dual plans are made with tblName.Schema.O for the database name.
TableDual(query) ==
    [newPointGetPlan EXCEPT !.IsTableDual = TRUE, !.dbName = query.schema.O]
\* dbName: tblName.Schema.L, or the session's current database when it is empty.
dbNameOf(query) ==
    IF query.schema.L = NoName THEN query.sess.currentDB ELSE query.schema.L

\* getLatestIndexInfo(ctx, tbl.ID, 0): the table's indexes in the latest
\* schema version, or the error of loading it.
getLatestIndexInfo(query) ==
    IF query.latest.loadErr
    THEN [latestIndexes |-> <<>>, check |-> FALSE, err |-> "ErrLoadSchema"]
    ELSE [latestIndexes |-> query.latest.states, check |-> TRUE, err |-> Nil]

\* latestIndexes[idxInfo.ID] is present and in public state.
latestPublic(latestIndexes, idxInfo) ==
    idxInfo.id \in DOMAIN latestIndexes /\ latestIndexes[idxInfo.id] = "public"

\* The loop of checkTblIndexForPointPlan (1137-1188) from index i on.
RECURSIVE indexLoop(_, _, _, _, _, _, _, _)
indexLoop(query, pairs, partitionDef, pos, globalIndexCheck, isTableDual, check, i) ==
    IF i > Len(query.tbl.indices)
    THEN NilPlan
    ELSE LET idxInfo == query.tbl.indices[i]
             continue == indexLoop(query, pairs, partitionDef, pos, globalIndexCheck,
                                   isTableDual, check, i + 1)
             latest == getLatestIndexInfo(query)
         IN IF ~idxInfo.unique \/ idxInfo.state # "public" \/ idxInfo.invisible \/ idxInfo.mv
               \/ ~indexIsAvailableByHints(idxInfo.name, query.hints)
            THEN continue
            ELSE IF globalIndexCheck /\ ~idxInfo.global
            THEN continue
            ELSE IF isTableDual
            THEN (IF check /\ latest.err # Nil THEN NilPlan
                  ELSE IF check /\ latest.check /\ ~latestPublic(latest.latestIndexes, idxInfo)
                  THEN continue
                  ELSE TableDual(query))
            ELSE LET idxValues == getIndexValues(idxInfo, pairs)
                 IN IF idxValues.nil
                    THEN continue
                    ELSE IF check /\ latest.err # Nil THEN NilPlan
                    ELSE IF check /\ latest.check
                            /\ ~latestPublic(latest.latestIndexes, idxInfo)
                    THEN continue
                    ELSE [newPointGetPlan EXCEPT
                            !.dbName = dbNameOf(query),
                            !.IndexInfo = <<idxInfo.id>>,
                            !.IndexValues = idxValues.vals,
                            !.PartitionDef = partitionDef,
                            !.partitionColumnPos =
                                IF partitionDef # NoPartition
                                THEN findPartitionIdx(idxInfo, pos, pairs) ELSE 0]

Called(pairs, globalIndexCheck, isTableDual) ==
    [fn |-> "checkTblIndexForPointPlan", pairs |-> pairs,
     globalIndexCheck |-> globalIndexCheck, isTableDual |-> isTableDual]

\* checkTblIndexForPointPlan that never consults the latest schema.
checkTblIndexForPointPlan_NoCheck(query, pairs, partitionDef, pos, globalIndexCheck, isTableDual, check) ==
    [(IF globalIndexCheck /\ (query.partitionNames # {} \/ query.tbl.part.inDDL)
      THEN NilPlan
      ELSE indexLoop(query, pairs, partitionDef, pos, globalIndexCheck, isTableDual, FALSE, 1))
     EXCEPT !.call = Called(pairs, globalIndexCheck, isTableDual)]

\* checkTblIndexForPointPlan that does not pass over the indexes that are not global.
checkTblIndexForPointPlan_AnyIndex(query, pairs, partitionDef, pos, globalIndexCheck, isTableDual, check) ==
    [(IF globalIndexCheck /\ (query.partitionNames # {} \/ query.tbl.part.inDDL)
      THEN NilPlan
      ELSE indexLoop(query, pairs, partitionDef, pos, FALSE, isTableDual,
                     (check \/ query.sess.rc) /\ query.sess.connID > 0, 1))
     EXCEPT !.call = Called(pairs, globalIndexCheck, isTableDual)]

checkTblIndexForPointPlan(query, pairs, partitionDef, pos, globalIndexCheck, isTableDual, check) ==
    [(IF globalIndexCheck /\ (query.partitionNames # {} \/ query.tbl.part.inDDL)
      THEN NilPlan
      ELSE indexLoop(query, pairs, partitionDef, pos, globalIndexCheck, isTableDual,
                     (check \/ query.sess.rc) /\ query.sess.connID > 0, 1))
     EXCEPT !.call = Called(pairs, globalIndexCheck, isTableDual)]

\* Lines 1087-1106, with the partition and the table-dual flag settled.
handleOrIndexPlan(query, pairs, partitionDef, pairIdx, isTableDual) ==
    LET h == findPKHandle(query.tbl, pairs)
    IN IF h # 0 /\ Len(pairs) = 1 /\ indexIsAvailableByHints(PrimaryName, query.hints)
       THEN (IF isTableDual
             THEN TableDual(query)
             ELSE [newPointGetPlan EXCEPT
                     !.dbName = dbNameOf(query),
                     !.Handle = <<pairs[h].value>>,
                     !.UnsignedHandle = query.tbl.pkIsHandle /\ query.tbl.unsigned,
                     !.PartitionDef = partitionDef])
       ELSE IF h # 0
       THEN NilPlan
       ELSE checkTblIndexForPointPlan(query, pairs, partitionDef, pairIdx, FALSE,
                                      isTableDual, query.check)

tryPointGetPlan(query) ==
    IF query.shape # "select"
    THEN NilPlan
    ELSE LET nv == getNameValuePairs(query.tbl, query.where)
         IN IF nv.nil /\ ~nv.dual
            THEN NilPlan
            ELSE IF query.tbl.part.type # "none"
            THEN LET pd == getPartitionDef(query, nv.pairs)
                 IN IF pd.dual
                    THEN TableDual(query)
                    ELSE IF pd.def = NoPartition
                    THEN checkTblIndexForPointPlan(query, nv.pairs, NoPartition, pd.idx, TRUE,
                                                   pd.dual, query.check)
                    ELSE IF query.partitionNames # {}
                            /\ ~partitionNameInSet(pd.def, query.partitionNames)
                    THEN TableDual(query)
                    ELSE handleOrIndexPlan(query, nv.pairs, pd.def, pd.idx, pd.dual)
            ELSE handleOrIndexPlan(query, nv.pairs, NoPartition, 0, nv.dual)

(***************************************************************************)
(* The inputs of the resolver                                              *)
(***************************************************************************)
Index(id, cols, flaw) ==
    [id |-> id, name |-> IndexNames[id], cols |-> cols,
     unique |-> flaw # "nonunique",
     state |-> IF flaw = "nonpublic" THEN "write-only" ELSE "public",
     invisible |-> flaw = "invisible", mv |-> flaw = "mv", prefix |-> flaw = "prefix",
     global |-> flaw = "global"]
Partition(type, maxvalue, inDDL) ==
    [type |-> type, col |-> "a", maxvalue |-> maxvalue, inDDL |-> inDDL,
     num |-> NumPartitions, lessThan |-> [i \in 1..NumPartitions |-> LessThan(i)]]
NoPartitioning == Partition("none", FALSE, FALSE)
Table(pkIsHandle, unsigned, indices, part) ==
    [pkIsHandle |-> pkIsHandle, unsigned |-> unsigned, indices |-> indices, part |-> part]

\* A leaf of the WHERE clause: column = constant of some kind; table is the
\* table qualifier of the column ("" for none, "t" for the queried table).
Leaf(op, col, kind, v, table) ==
    [op |-> op, col |-> col, kind |-> kind, v |-> v, table |-> table]
Eq(col, v) == Leaf("eq", col, "int", v, "")
EqNull(col) == Leaf("eq", col, "null", 0, "")
EqFrac(col) == Leaf("eq", col, "frac", 0, "")
OtherOp == Leaf("other", "a", "int", 0, "")
Overflowing == MaxInt + 1
Consts == {-(MaxInt + 2), 0, MaxInt, Overflowing, 2 * MaxInt + 2}
UpTo2(leaves) == {<<x>> : x \in leaves} \cup {<<x, y>> : x \in leaves, y \in leaves}

Hint(type, names) == [scope |-> "scan", type |-> type, names |-> names]
AllPublic(indices) == [i \in 1..Len(indices) |-> "public"]
CurrentDB == Spelled("test", FALSE)
Session(rc, connID) == [rc |-> rc, connID |-> connID, currentDB |-> CurrentDB]
Query(shape, tbl, where, hints, pnames, keyPos, ses, check, latest) ==
    [shape |-> shape, tbl |-> tbl, where |-> where, hints |-> hints,
     partitionNames |-> pnames, keyPos |-> keyPos, sess |-> ses, check |-> check,
     latest |-> latest, schema |-> CIStr(NoName)]
Latest(loadErr, states) == [loadErr |-> loadErr, states |-> states]

\* Tables whose primary key is the integer handle, plain and partitioned.
HandleQuery ==
    LET parts == {NoPartitioning, Partition("key", FALSE, FALSE),
                  Partition("list", FALSE, FALSE)}
                 \cup {Partition(t, FALSE, d) : t \in {"hash", "hashexpr"}, d \in BOOLEAN}
                 \cup {Partition("range", m, FALSE) : m \in BOOLEAN}
        idxs == {<<>>, <<Index(1, <<"b">>, "ok")>>, <<Index(1, <<"b">>, "global")>>,
                 <<Index(1, <<"a", "b">>, "global")>>}
        leaves == {Eq("a", v) : v \in Consts}
                  \cup {Eq("b", MaxInt), Eq("b", Overflowing), OtherOp, EqNull("a")}
        hints == {<<>>, <<Hint("use", {PrimaryName})>>, <<Hint("ignore", {PrimaryName})>>,
                  <<Hint("use", {"i1"})>>}
    IN \E u \in BOOLEAN, ix \in idxs, pt \in parts, w \in UpTo2(leaves), h \in hints :
          \E pn \in IF pt.type = "none" THEN {{}}
                    ELSE {{}, {CIStr(Spelled(0, FALSE))},
                          {CIStr(Spelled(NumPartitions - 1, TRUE))}},
             kp \in IF pt.type = "key" THEN -1..(NumPartitions - 1) ELSE {0} :
             q = Query("select", Table(TRUE, u, ix, pt), w, h, pn, kp, Session(FALSE, 1),
                       FALSE, Latest(FALSE, AllPublic(ix)))

\* Non-partitioned tables with up to two indexes.
IndexQuery ==
    LET cols == {<<"b">>, <<"b", "c">>, <<"c", "b">>}
        flaws == {"ok", "nonunique", "nonpublic", "invisible", "mv", "prefix"}
        idxs == {<<>>} \cup {<<Index(1, c, f)>> : c \in cols, f \in flaws}
                \cup {<<Index(1, c, f), Index(2, c2, "ok")>> :
                        c \in cols, f \in flaws, c2 \in cols}
        leaves == {Eq("b", MaxInt), Eq("b", 0), Eq("b", Overflowing), Eq("c", MaxInt),
                   Eq("c", Overflowing), Eq("a", 0), Eq(RowID, 0), OtherOp, EqFrac("b")}
        hints == {<<>>, <<Hint("use", {"i1"})>>, <<Hint("ignore", {"i1"})>>,
                  <<Hint("force", {"i2"})>>, <<Hint("ignore", {"i1"}), Hint("use", {"i1"})>>,
                  <<[scope |-> "join", type |-> "ignore", names |-> {"i1"}]>>,
                  <<Hint("use", {})>>}
    IN \E pk \in BOOLEAN, ix \in idxs, w \in UpTo2(leaves), h \in hints :
          q = Query("select", Table(pk, FALSE, ix, NoPartitioning), w, h, {}, 0,
                    Session(FALSE, 1), FALSE, Latest(FALSE, AllPublic(ix)))

\* Check mode: the session, the check argument and the latest schema vary.
CheckQuery ==
    LET idxs == {<<i1>> : i1 \in {Index(1, <<"b">>, "ok"), Index(1, <<"b", "c">>, "ok"),
                                  Index(1, <<"b">>, "nonpublic")}}
                \cup {<<i1, i2>> :
                        i1 \in {Index(1, <<"b">>, "ok"), Index(1, <<"b", "c">>, "ok"),
                                Index(1, <<"b">>, "nonpublic")},
                        i2 \in {Index(2, <<"b">>, "ok"), Index(2, <<"c", "b">>, "ok")}}
        wheres == {<<Eq("b", MaxInt)>>, <<Eq("b", Overflowing)>>,
                   <<Eq("b", MaxInt), Eq("c", MaxInt)>>, <<Eq("c", MaxInt), Eq("b", MaxInt)>>,
                   <<Eq("b", Overflowing), Eq("c", MaxInt)>>}
        states == UNION {[D -> {"public", "write-only"}] : D \in SUBSET {1, 2}}
    IN \E ix \in idxs, w \in wheres, rc \in BOOLEAN, c \in {0, 1}, chk \in BOOLEAN,
          le \in BOOLEAN, st \in states :
          q = Query("select", Table(FALSE, FALSE, ix, NoPartitioning), w, <<>>, {}, 0,
                    Session(rc, c), chk, Latest(le, st))

\* Statements tryPointGetPlan turns down before it reads the WHERE clause.
ShapeQuery ==
    \E sh \in {"having", "orderby", "limit0", "offset", "generated-column",
                "non-public-column", "no-single-table"} :
        q = Query(sh, Table(TRUE, FALSE, <<>>, NoPartitioning), <<Eq("a", 0)>>, <<>>, {}, 0,
                  Session(FALSE, 1), FALSE, Latest(FALSE, <<>>))

Unplanned == [kind |-> "unplanned"]
IdlePlan ==
    [idxInfo |-> "nil", idxVals |-> <<>>, handle |-> 1, lock |-> FALSE, temp |-> FALSE,
     partitionDef |-> "nil", lockWaitTime |-> 0]

PlanInit ==
    /\ (HandleQuery \/ IndexQuery \/ CheckQuery \/ ShapeQuery)
    /\ fp = Unplanned
    /\ plan = IdlePlan
    /\ sess = [rc |-> FALSE, weak |-> FALSE, txnWritable |-> FALSE]
    /\ e = InitFields(NewExecutor, IdlePlan)
    /\ phase = "unopened"
    /\ lockCache = {}
    /\ locked = {}
    /\ trace = <<>>
    /\ result = NoResult
    /\ hist = [nexts |-> 0, closed |-> FALSE, lockedBefore |-> {},
               first |-> [err |-> Nil, rows |-> 0]]

TryPointGetPlan ==
    /\ fp = Unplanned
    /\ fp' = tryPointGetPlan(q)
    /\ UNCHANGED <<q, execVars>>

PlanStep == TryPointGetPlan

PlanSpec == PlanInit /\ [][PlanStep]_vars

(***************************************************************************)
(* Properties of the resolver                                              *)
(***************************************************************************)
Planned == fp # Unplanned /\ q.shape = "select"
IsPlan == fp.kind = "plan"
IsHandlePlan == IsPlan /\ ~fp.IsTableDual /\ fp.Handle # NoHandle
IsIndexPlan == IsPlan /\ ~fp.IsTableDual /\ fp.IndexInfo # NoIndex
IsDualPlan == IsPlan /\ fp.IsTableDual

\* The WHERE clause is one equality of the handle column with an integer constant.
SingleHandleEquality ==
    /\ q.tbl.pkIsHandle /\ Len(q.where) = 1
    /\ q.where[1].op = "eq" /\ q.where[1].col = "a" /\ q.where[1].kind = "int"
InRange(x) == x.v \in IntRange(ColUnsigned(q.tbl, x.col))
HintsAllowPrimary == indexIsAvailableByHints(PrimaryName, q.hints)

\* C7 as stated: for a WHERE clause that is a single equality on the integer
\* handle column whose constant overflows the column's type (and hints that
\* allow the primary key), tryPointGetPlan returns a plan with IsTableDual set
\* and never a plan that carries a Handle, on partitioned and non-partitioned
\* tables alike.
C7_OverflowIsTableDual ==
    (Planned /\ SingleHandleEquality /\ ~InRange(q.where[1]) /\ HintsAllowPrimary) =>
        (IsDualPlan /\ fp.Handle = NoHandle)

\* C7 divergence: on a hash-partitioned table the overflowing constant comes
\* back as the Handle of a plan that is not a table dual.
C7_Witness ==
    /\ Planned /\ SingleHandleEquality /\ ~InRange(q.where[1])
    /\ q.tbl.part.type = "hash"
    /\ IsHandlePlan /\ fp.Handle = <<q.where[1].v>> /\ fp.PartitionDef # NoPartition

\* The handle column is one of several integer equality conjuncts.
SeveralConjunctsWithHandle ==
    /\ q.tbl.pkIsHandle /\ Len(q.where) >= 2
    /\ \A i \in 1..Len(q.where) : q.where[i].op = "eq" /\ q.where[i].kind = "int"
    /\ \E i \in 1..Len(q.where) : q.where[i].col = "a"

\* C8 as stated: on a table whose primary key is the integer handle,
\* tryPointGetPlan returns a handle plan (Handle the converted constant,
\* UnsignedHandle the column's flag, no IndexInfo, PartitionDef the computed
\* partition) exactly when the WHERE clause is a single in-range equality on
\* the handle column and the hints allow the primary key; when the handle
\* column is one of several equality conjuncts it returns no plan at all.
C8_HandlePlan_AsStated ==
    (Planned /\ q.tbl.pkIsHandle) =>
        /\ IsHandlePlan <=>
              (SingleHandleEquality /\ InRange(q.where[1]) /\ HintsAllowPrimary)
        /\ IsHandlePlan =>
              /\ fp.Handle = <<q.where[1].v>>
              /\ fp.UnsignedHandle = q.tbl.unsigned
              /\ fp.IndexInfo = NoIndex
              /\ fp.PartitionDef =
                    getPartitionDef(q, <<nameValuePair("a", q.where[1].v)>>).def
        /\ SeveralConjunctsWithHandle => fp.kind = "nil"

\* The partition getPartitionDef computes for the single handle equality.
HandlePartition == getPartitionDef(q, <<nameValuePair("a", q.where[1].v)>>)

\* C8 amended: on a non-partitioned table the handle plan is returned exactly
\* for a single in-range equality on the handle column that the hints allow;
\* on a partitioned table exactly for a single equality on the handle column
\* (in range or overflowing) that the hints allow and whose partition
\* getPartitionDef computes and the PARTITION list, if any, names.  The plan
\* holds the constant as Handle, the column's unsigned flag, no IndexInfo and
\* the computed partition.  When the handle column is one of several equality
\* conjuncts no handle plan is returned, and on a non-partitioned table with
\* every constant in range no plan at all.
C8_HandlePlan ==
    (Planned /\ q.tbl.pkIsHandle) =>
        /\ q.tbl.part.type = "none" =>
              (IsHandlePlan <=>
                  (SingleHandleEquality /\ InRange(q.where[1]) /\ HintsAllowPrimary))
        /\ q.tbl.part.type # "none" =>
              (IsHandlePlan <=>
                  /\ SingleHandleEquality /\ HintsAllowPrimary
                  /\ ~HandlePartition.dual /\ HandlePartition.def # NoPartition
                  /\ (q.partitionNames = {}
                      \/ \E n \in q.partitionNames : n.L.text = HandlePartition.def[1]))
        /\ IsHandlePlan =>
              /\ fp.Handle = <<q.where[1].v>>
              /\ fp.UnsignedHandle = q.tbl.unsigned
              /\ fp.IndexInfo = NoIndex
              /\ fp.PartitionDef = HandlePartition.def
        /\ SeveralConjunctsWithHandle =>
              /\ ~IsHandlePlan
              /\ (q.tbl.part.type = "none" /\ \A i \in 1..Len(q.where) : InRange(q.where[i]))
                    => fp.kind = "nil"

\* C8 witness: a handle plan on a range-partitioned table with an unsigned
\* handle column, carrying the second partition.
C8_Witness ==
    /\ Planned /\ q.tbl.pkIsHandle /\ q.tbl.unsigned /\ q.tbl.part.type = "range"
    /\ IsHandlePlan /\ fp.UnsignedHandle /\ fp.PartitionDef = <<1>>
    /\ q.hints # <<>>

\* The arguments and the session of a checkTblIndexForPointPlan call.
ViaIndexCheck == fp # Unplanned /\ fp.call.fn = "checkTblIndexForPointPlan"
CheckMode == (q.check \/ q.sess.rc) /\ q.sess.connID > 0
ColumnsEqualPairs(idx, pairs) ==
    /\ Len(idx.cols) = Len(pairs)
    /\ \A c \in 1..Len(idx.cols) : \E i \in 1..Len(pairs) : pairs[i].colName = idx.cols[c]
Usable(idx) ==
    /\ idx.unique /\ idx.state = "public" /\ ~idx.invisible /\ ~idx.mv
    /\ indexIsAvailableByHints(idx.name, q.hints)
ValueOf(colName, pairs) ==
    pairs[CHOOSE i \in 1..Len(pairs) :
            pairs[i].colName = colName /\ \A j \in 1..(i - 1) : pairs[j].colName # colName].value
Least(S) == CHOOSE i \in S : \A j \in S : i <= j
IndexPlanOf(idx, pairs) ==
    /\ IsIndexPlan
    /\ fp.IndexInfo = <<idx.id>>
    /\ Len(fp.IndexValues) = Len(idx.cols)
    /\ \A c \in 1..Len(idx.cols) : fp.IndexValues[c] = ValueOf(idx.cols[c], pairs)

\* C9 as stated: checkTblIndexForPointPlan selects the first index in
\* declaration order that is unique, public, visible, not multi-valued, not a
\* prefix index, allowed by the hints, and whose columns are exactly the pair
\* columns; IndexValues hold one value per index column in index-column
\* order; if no index qualifies no plan is returned.
C9_FirstQualifyingIndex_AsStated ==
    ViaIndexCheck =>
        LET pairs == fp.call.pairs
            Q == {i \in 1..Len(q.tbl.indices) :
                    /\ Usable(q.tbl.indices[i]) /\ ~q.tbl.indices[i].prefix
                    /\ ColumnsEqualPairs(q.tbl.indices[i], pairs)}
        IN IF Q = {} THEN fp.kind = "nil"
           ELSE IndexPlanOf(q.tbl.indices[Least(Q)], pairs)

\* C9 amended: the call returns no plan when it looks for global indexes only
\* and the statement names partitions or a partition is being added or
\* dropped.  Otherwise it goes through the indexes in declaration order,
\* passing over each that is not unique, not public, invisible, multi-valued,
\* excluded by the hints, or (when looking for global indexes only) not
\* global.  With the table-dual flag set the first index left gives a
\* table-dual plan whatever its columns; without it the first index left that
\* is no prefix index and whose columns are exactly the pair columns gives an
\* index plan whose IndexValues are in index-column order.  In check mode
\* that index must also be public in the latest schema, else the search goes
\* on, and a failure to load the latest schema gives no plan.  If no index is
\* left no plan is returned.
C9_FirstQualifyingIndex ==
    ViaIndexCheck =>
        LET c == fp.call
            Cand == {i \in 1..Len(q.tbl.indices) :
                        /\ Usable(q.tbl.indices[i])
                        /\ c.globalIndexCheck => q.tbl.indices[i].global
                        /\ \/ c.isTableDual
                           \/ /\ ~q.tbl.indices[i].prefix
                              /\ ColumnsEqualPairs(q.tbl.indices[i], c.pairs)}
            Sel == {i \in Cand : CheckMode =>
                        /\ q.tbl.indices[i].id \in DOMAIN q.latest.states
                        /\ q.latest.states[q.tbl.indices[i].id] = "public"}
        IN IF c.globalIndexCheck /\ (q.partitionNames # {} \/ q.tbl.part.inDDL)
           THEN fp.kind = "nil"
           ELSE IF CheckMode /\ q.latest.loadErr /\ Cand # {}
           THEN fp.kind = "nil"
           ELSE IF Sel = {}
           THEN fp.kind = "nil"
           ELSE IF c.isTableDual
           THEN IsDualPlan /\ fp.IndexInfo = NoIndex
           ELSE IndexPlanOf(q.tbl.indices[Least(Sel)], c.pairs)

\* C9 witness: the first index has one column too few, the second is chosen
\* and its IndexValues are in index-column order, the reverse of the WHERE
\* clause's order.
C9_Witness ==
    /\ ViaIndexCheck /\ IsIndexPlan /\ fp.IndexInfo = <<2>>
    /\ q.tbl.indices[1].cols = <<"b">> /\ Usable(q.tbl.indices[1])
    /\ q.tbl.indices[2].cols = <<"c", "b">>
    /\ q.where = <<Eq("b", 0), Eq("c", MaxInt)>>
    /\ fp.IndexValues = <<MaxInt, 0>>

\* C10: in check mode every index plan checkTblIndexForPointPlan returns uses
\* an index that is present and public in the latest schema, every table-dual
\* plan it returns rests on such an index, and when the latest schema cannot
\* be loaded it returns no plan.
C10_LatestSchemaPublic ==
    (ViaIndexCheck /\ CheckMode) =>
        /\ IsIndexPlan =>
              /\ fp.IndexInfo[1] \in DOMAIN q.latest.states
              /\ q.latest.states[fp.IndexInfo[1]] = "public"
        /\ IsDualPlan =>
              \E i \in 1..Len(q.tbl.indices) :
                  /\ Usable(q.tbl.indices[i])
                  /\ q.tbl.indices[i].id \in DOMAIN q.latest.states
                  /\ q.latest.states[q.tbl.indices[i].id] = "public"
        /\ q.latest.loadErr => fp.kind = "nil"

\* C10 witness: in check mode the first index matches the pairs but is no
\* longer public in the latest schema, and the second index is chosen.
C10_Witness ==
    /\ ViaIndexCheck /\ CheckMode /\ ~q.check
    /\ Len(q.tbl.indices) = 2
    /\ Usable(q.tbl.indices[1]) /\ ColumnsEqualPairs(q.tbl.indices[1], fp.call.pairs)
    /\ 1 \in DOMAIN q.latest.states /\ q.latest.states[1] = "write-only"
    /\ IsIndexPlan /\ fp.IndexInfo = <<2>>

\* The pairs tryPointGetPlan extracts, and the case that the table is partitioned
\* and none of them is on the partitioning column.
ExtractedPairs == getNameValuePairs(q.tbl, q.where)
NoPairOnPartitionColumn ==
    /\ q.tbl.part.type # "none"
    /\ ~ExtractedPairs.nil
    /\ \A i \in 1..Len(ExtractedPairs.pairs) :
            ExtractedPairs.pairs[i].colName # q.tbl.part.col
GlobalCandidates ==
    {i \in 1..Len(q.tbl.indices) :
        /\ Usable(q.tbl.indices[i]) /\ q.tbl.indices[i].global
        /\ ~q.tbl.indices[i].prefix
        /\ ColumnsEqualPairs(q.tbl.indices[i], ExtractedPairs.pairs)}

\* C14 as stated: on a partitioned table, when none of the extracted pairs is on
\* a column of the partition expression, tryPointGetPlan returns no fast plan.
C14_NoPartitionNoPlan_AsStated ==
    (Planned /\ NoPairOnPartitionColumn) => fp.kind = "nil"

\* C14 amended: on a partitioned table, when none of the extracted pairs is on
\* the partitioning column, tryPointGetPlan returns neither a handle plan nor a
\* table dual nor a plan with a partition; it looks for a global unique index
\* only.  Outside check mode it returns the index plan of the first usable
\* global index that is no prefix index and whose columns are exactly the pair
\* columns (the values as extracted, an overflowing constant unconverted),
\* provided the statement names no partitions and no partition is being added
\* or dropped; otherwise it returns no plan.
C14_NoPartitionGlobalIndexOnly ==
    (Planned /\ NoPairOnPartitionColumn) =>
        /\ fp.kind = "nil"
           \/ /\ IsIndexPlan
              /\ fp.PartitionDef = NoPartition
              /\ fp.Handle = NoHandle
              /\ q.tbl.indices[fp.IndexInfo[1]].global
              /\ q.partitionNames = {} /\ ~q.tbl.part.inDDL
        /\ ~CheckMode =>
              IF q.partitionNames = {} /\ ~q.tbl.part.inDDL /\ GlobalCandidates # {}
              THEN IndexPlanOf(q.tbl.indices[Least(GlobalCandidates)], ExtractedPairs.pairs)
              ELSE fp.kind = "nil"

\* C14 witness: a hash-partitioned table with a global unique index on b and
\* WHERE b = constant gives an index plan without a partition.
C14_Witness ==
    /\ Planned /\ NoPairOnPartitionColumn
    /\ q.tbl.part.type = "hash"
    /\ q.where = <<Eq("b", MaxInt)>>
    /\ IsIndexPlan /\ fp.IndexInfo = <<1>> /\ fp.PartitionDef = NoPartition
    /\ fp.IndexValues = <<MaxInt>>

(***************************************************************************)
(* getPartitionDef as a function of the table's partitioning and the pairs *)
(*                                                                         *)
(* q holds the table and the pairs handed to getPartitionDef, fp what it   *)
(* returned.  Values are the integers of a (MaxVal-wide) signed column.    *)
(***************************************************************************)
MaxVal == 15            \* pair values range over -(MaxVal+1)..MaxVal
MaxNum == 4             \* up to MaxNum partitions; range bounds in -MaxNum..MaxNum

Values == (-(MaxVal + 1))..MaxVal

\* The elements of a finite set of integers in ascending order.
RECURSIVE Ascending(_)
Ascending(S) ==
    IF S = {} THEN <<>>
    ELSE LET m == CHOOSE x \in S : \A y \in S : x <= y
         IN <<m>> \o Ascending(S \ {m})

HashPartition(num) == [Partition("hash", FALSE, FALSE) EXCEPT !.num = num]
RangePartition(lessThan, maxvalue) ==
    [Partition("range", maxvalue, FALSE) EXCEPT
        !.num = Len(lessThan), !.lessThan = lessThan]

PartitionCall(tbl, pairs) ==
    [shape |-> "getPartitionDef",
     query |-> Query("select", tbl, <<>>, <<>>, {}, 0, Session(FALSE, 1), FALSE,
                     Latest(FALSE, <<>>)),
     pairs |-> pairs]

\* The pairs: one on the partitioning column, alone or after one on another column.
PairsOn(v) == {<<nameValuePair("a", v)>>, <<nameValuePair("b", 0), nameValuePair("a", v)>>}

HashCall ==
    \E num \in 1..MaxNum, v \in Values, u \in BOOLEAN : \E pairs \in PairsOn(v) :
        q = PartitionCall(Table(TRUE, u, <<>>, HashPartition(num)), pairs)

\* Signed bounds ascend; the bounds of an unsigned column are not negative.
RangeCall ==
    \E u \in BOOLEAN, m \in BOOLEAN, v \in Values :
        \E S \in SUBSET (IF u THEN 0..MaxNum ELSE (-MaxNum)..MaxNum) :
            /\ S # {}
            /\ Cardinality(S) <= MaxNum
            /\ \E pairs \in PairsOn(v) :
                q = PartitionCall(Table(TRUE, u, <<>>, RangePartition(Ascending(S), m)), pairs)

PartInit ==
    /\ (HashCall \/ RangeCall)
    /\ fp = Unplanned
    /\ plan = IdlePlan
    /\ sess = [rc |-> FALSE, weak |-> FALSE, txnWritable |-> FALSE]
    /\ e = InitFields(NewExecutor, IdlePlan)
    /\ phase = "unopened"
    /\ lockCache = {}
    /\ locked = {}
    /\ trace = <<>>
    /\ result = NoResult
    /\ hist = [nexts |-> 0, closed |-> FALSE, lockedBefore |-> {},
               first |-> [err |-> Nil, rows |-> 0]]

GetPartitionDef ==
    /\ fp = Unplanned
    /\ fp' = [kind |-> "partdef", ret |-> getPartitionDef(q.query, q.pairs)]
    /\ UNCHANGED <<q, execVars>>

PartStep == GetPartitionDef

PartSpec == PartInit /\ [][PartStep]_vars

Located == fp # Unplanned
PartOf == q.query.tbl.part
PartValue == q.pairs[Len(q.pairs)].value

\* C11: on a hash-partitioned table with N >= 1 partitions getPartitionDef returns,
\* for every value v of the partitioning column, the position abs(v % N) with %
\* the truncated remainder; the position lies in 0..N-1, and is 1 for v = 13, N = 4.
C11_HashPosition ==
    (Located /\ PartOf.type = "hash") =>
        LET v == PartValue
            N == PartOf.num
            pos == IF v >= 0 THEN v % N ELSE (-v) % N
        IN /\ ~fp.ret.dual
           /\ fp.ret.def = <<pos>>
           /\ fp.ret.def[1] \in 0..(N - 1)
           /\ fp.ret.idx = Len(q.pairs)
           /\ (v = 13 /\ N = 4 => fp.ret.def = <<1>>)

C11_Witness ==
    /\ Located
    /\ PartOf.type = "hash" /\ PartOf.num = 4
    /\ PartValue = 13
    /\ fp.ret.def = <<1>>

\* The position of the first partition whose upper bound is greater than v,
\* found by scanning the partitions in order; the number of partitions when none is.
RECURSIVE LinearScan(_, _, _, _)
LinearScan(part, v, unsigned, i) ==
    IF i >= Len(part.lessThan) THEN i
    ELSE IF (part.maxvalue /\ i = Len(part.lessThan) - 1)
            \/ (IF unsigned THEN UnsignedLess(v, part.lessThan[i + 1])
                ELSE v < part.lessThan[i + 1])
    THEN i
    ELSE LinearScan(part, v, unsigned, i + 1)

\* C12: on a table range-partitioned on one column with sorted upper bounds
\* getPartitionDef returns, for every value v, the first partition whose upper
\* bound is greater than v, as a linear scan finds it, and reports table dual when
\* v is below no bound and the last partition is not unbounded.
C12_RangePosition ==
    (Located /\ PartOf.type = "range") =>
        LET length == Len(PartOf.lessThan)
            pos == LinearScan(PartOf, PartValue, q.query.tbl.unsigned, 0)
        IN IF pos < length
           THEN /\ ~fp.ret.dual
                /\ fp.ret.def = <<pos>>
                /\ fp.ret.idx = Len(q.pairs)
           ELSE /\ fp.ret.dual
                /\ fp.ret.def = NoPartition
                /\ ~PartOf.maxvalue

\* A value equal to the second of three bounds lands in the third partition.
C12_Witness ==
    /\ Located
    /\ PartOf.type = "range" /\ Len(PartOf.lessThan) = 3 /\ ~PartOf.maxvalue
    /\ PartValue = PartOf.lessThan[2]
    /\ fp.ret.def = <<2>>

\* A value that is below no bound of a table without MAXVALUE is table dual.
C12_DualWitness ==
    /\ Located
    /\ PartOf.type = "range" /\ ~PartOf.maxvalue
    /\ Len(PartOf.lessThan) > 1
    /\ PartValue >= PartOf.lessThan[Len(PartOf.lessThan)]
    /\ fp.ret.dual

(***************************************************************************)
(* getNameValuePairs as a function of the table and the WHERE clause       *)
(***************************************************************************)
PairCall(tbl, where) == [shape |-> "getNameValuePairs", tbl |-> tbl, where |-> where]

\* The numeric kinds of a constant: signed and unsigned integer, float, decimal.
NumericConsts(col) == {Leaf("eq", col, k, 1, "") : k \in {"int", "uint", "float", "decimal"}}

PairLeaves ==
    {Eq("a", 0), Eq("a", Overflowing), Eq("b", MaxInt), Eq("b", -(MaxInt + 2)),
     EqNull("b"), EqFrac("b"), OtherOp, Leaf("eq", "b", "nonconst", 0, ""),
     Leaf("eq", "b", "int", 0, "other"), Leaf("eq", "c", "int", 0, "t"),
     Eq(RowID, 0), Eq("nosuch", 0)}
    \cup {Leaf("eq", col, "string", 1, "") : col \in {"s", "f", "g"}}
    \cup NumericConsts("s") \cup NumericConsts("f") \cup NumericConsts("g")

\* WHERE clauses of up to two leaves, and of three leaves on the integer columns.
PairInputs ==
    \E u \in BOOLEAN :
        \/ \E w \in UpTo2(PairLeaves) \cup {<<>>} : q = PairCall(Table(TRUE, u, <<>>, NoPartitioning), w)
        \/ \E x \in {Eq("a", 0), Eq("a", Overflowing)}, y \in {Eq("b", MaxInt), EqNull("b")},
              z \in {Eq("c", 0), Eq("c", Overflowing), OtherOp} :
              q = PairCall(Table(TRUE, u, <<>>, NoPartitioning), <<x, y, z>>)

PairInit ==
    /\ PairInputs
    /\ fp = Unplanned
    /\ plan = IdlePlan
    /\ sess = [rc |-> FALSE, weak |-> FALSE, txnWritable |-> FALSE]
    /\ e = InitFields(NewExecutor, IdlePlan)
    /\ phase = "unopened"
    /\ lockCache = {}
    /\ locked = {}
    /\ trace = <<>>
    /\ result = NoResult
    /\ hist = [nexts |-> 0, closed |-> FALSE, lockedBefore |-> {},
               first |-> [err |-> Nil, rows |-> 0]]

GetNameValuePairs ==
    /\ fp = Unplanned
    /\ fp' = [kind |-> "pairs", ret |-> getNameValuePairs(q.tbl, q.where)]
    /\ UNCHANGED <<q, execVars>>

PairStep == GetNameValuePairs

PairSpec == PairInit /\ [][PairStep]_vars

Extracted == fp # Unplanned
\* The leaf is an equality of a column with a non-NULL literal or parameter
\* marker, and the column is not qualified by another table.
IsColumnEquality(x) ==
    /\ x.op = "eq" /\ x.kind \notin {"null", "nonconst"}
    /\ x.table \in {"", "t"}
OfQueriedTable(x) == ColType(x.col) # NoColumn \/ x.col = RowID
\* The constant does not convert to the column's type, or not to an equal value.
Overflows(x) ==
    ColType(x.col) = "int" /\ x.v \notin IntRange(ColUnsigned(q.tbl, x.col))
FailsConversion(x) ==
    \/ Overflows(x)
    \/ ColType(x.col) = "int" /\ x.kind = "frac"
    \/ IsETString(ColType(x.col)) /\ x.kind \in NumericKinds

\* C15 as stated: the pair list is not empty only when every leaf of the AND tree
\* is an equality of a column of the queried table with a non-NULL literal or
\* parameter marker, and then holds one pair per leaf in left-to-right order; if
\* any leaf is another operator, compares to NULL or a non-constant, names
\* another table or fails conversion, the result holds no pairs at all.
C15_AllOrNothing_AsStated ==
    Extracted =>
        /\ fp.ret.pairs # <<>> =>
              /\ \A i \in 1..Len(q.where) :
                    IsColumnEquality(q.where[i]) /\ OfQueriedTable(q.where[i])
              /\ Len(fp.ret.pairs) = Len(q.where)
              /\ \A i \in 1..Len(q.where) : fp.ret.pairs[i].colName = q.where[i].col
        /\ (\E i \in 1..Len(q.where) :
                ~IsColumnEquality(q.where[i]) \/ FailsConversion(q.where[i]))
              => fp.ret.pairs = <<>>

\* The leaf gives no pair and clears the table-dual flag.
GivesNothing(x) ==
    \/ ~IsColumnEquality(x)
    \/ /\ ColType(x.col) \notin {NoColumn, "binary"}
       /\ \/ ColType(x.col) = "int" /\ x.kind = "frac"
          \/ IsETString(ColType(x.col)) /\ x.kind \in NumericKinds
GivesOverflow(x) ==
    ~GivesNothing(x) /\ Overflows(x)

\* C15 amended: the pair list is not empty only when every leaf of the AND tree
\* is an equality of a column name, unqualified or qualified by the queried
\* table, with a non-NULL literal or parameter marker, and then holds one pair
\* per leaf in left-to-right order.  A name that is no column of the table
\* (_tidb_rowid or any other) and a fixed-length column with the binary
\* collation give a pair with the constant unconverted, whatever its kind.  A
\* leaf that is another operator, compares to NULL or a non-constant, names
\* another table, compares a string column to a number or converts to an unequal
\* value empties the result.  An overflowing constant empties the result inside
\* an AND tree but, as the only leaf, comes back as one pair with the
\* unconverted constant; in both cases the table-dual flag is set, provided no
\* leaf to its left gave nothing.
C15_AllOrNothing ==
    Extracted =>
        LET w == q.where
            Bad == {i \in 1..Len(w) : GivesNothing(w[i]) \/ GivesOverflow(w[i])}
        IN IF Len(w) = 0
           THEN fp.ret = NilPairs
           ELSE IF Bad = {}
           THEN /\ ~fp.ret.nil /\ ~fp.ret.dual
                /\ Len(fp.ret.pairs) = Len(w)
                /\ \A i \in 1..Len(w) :
                      fp.ret.pairs[i] = nameValuePair(w[i].col, w[i].v)
           ELSE IF Len(w) = 1 /\ GivesOverflow(w[1])
           THEN /\ fp.ret.pairs = <<nameValuePair(w[1].col, w[1].v)>>
                /\ fp.ret.dual
           ELSE /\ fp.ret.nil /\ fp.ret.pairs = <<>>
                /\ fp.ret.dual = GivesOverflow(w[Least(Bad)])

\* C15 witness: in a tree of three leaves the last one overflows; no pair of the
\* two leaves that qualified comes back, and the table-dual flag is set.
C15_Witness ==
    /\ Extracted
    /\ q.where = <<Eq("a", 0), Eq("b", MaxInt), Eq("c", Overflowing)>>
    /\ fp.ret.pairs = <<>> /\ fp.ret.dual

\* C15 divergence from the statement: a single overflowing leaf comes back as a pair.
C15_OverflowWitness ==
    /\ Extracted
    /\ q.where = <<Eq("b", -(MaxInt + 2))>>
    /\ Len(fp.ret.pairs) = 1 /\ fp.ret.dual

\* C16 as stated: for every string-typed column, the fixed-length columns with
\* the binary collation included, and every numeric constant (signed or
\* unsigned integer, float, decimal), getNameValuePairs gives no pair for
\* column = constant.
C16_StringColumnNumericConstant ==
    (/\ Extracted
     /\ Len(q.where) = 1
     /\ IsColumnEquality(q.where[1])
     /\ IsETString(ColType(q.where[1].col))
     /\ q.where[1].kind \in {"int", "uint", "float", "decimal"})
        => fp.ret.pairs = <<>>

\* C16 divergence: BINARY(n) column = integer constant comes back as a pair.
C16_Witness ==
    /\ Extracted
    /\ q.where = <<Leaf("eq", "f", "int", 1, "")>>
    /\ fp.ret.pairs = <<nameValuePair("f", 1)>>
    /\ ~fp.ret.dual

\* The columns without the binary collation do give no pair.
C16_OtherStringColumns ==
    (/\ Extracted
     /\ Len(q.where) = 1
     /\ IsColumnEquality(q.where[1])
     /\ ColType(q.where[1].col) \in {"varchar", "char"}
     /\ q.where[1].kind \in {"int", "uint", "float", "decimal"})
        => fp.ret = NilPairs

(***************************************************************************)
(* getLockWaitTime as a function of the lock clause and the session        *)
(*                                                                         *)
(* int64 is modelled by the integers -(MaxInt64+1)..MaxInt64 and uint64 by *)
(* 0..2*MaxInt64+1; arithmetic wraps around as the machine's does.         *)
(***************************************************************************)
MaxInt64 == 2047        \* the largest int64 of the model
MaxWaitSec == 5         \* WAIT n with n in 0..MaxWaitSec

Wrap == 2 * (MaxInt64 + 1)
\* The product of two uint64.
MulUint64(a, b) == (a * b) % Wrap
\* int64(u) of a uint64 u.
Int64(u) == IF u > MaxInt64 THEN u - Wrap ELSE u

\* tikvstore.LockNoWait
LockNoWait == -1

SelectLockTypes ==
    {"SelectLockNone", "SelectLockForUpdate", "SelectLockForShare",
     "SelectLockForUpdateNoWait", "SelectLockForUpdateWaitN",
     "SelectLockForShareNoWait", "SelectLockForUpdateSkipLocked",
     "SelectLockForShareSkipLocked"}
NoLockInfo == [LockType |-> "nil", WaitSec |-> 0]
SelectLockInfo(lockType, waitSec) == [LockType |-> lockType, WaitSec |-> waitSec]
LockInfos ==
    {NoLockInfo} \cup {SelectLockInfo(t, 0) : t \in SelectLockTypes}
                 \cup {SelectLockInfo("SelectLockForUpdateWaitN", n) : n \in 0..MaxWaitSec}

\* The session variables and the configuration getLockWaitTime reads.
SessionVars(autocommit, inTxn, pessimisticAutoCommit, lockWaitTimeout) ==
    [autocommit |-> autocommit, inTxn |-> inTxn,
     PessimisticAutoCommit |-> pessimisticAutoCommit, LockWaitTimeout |-> lockWaitTimeout]

IsSelectForUpdateLockType(lockType) ==
    lockType \in {"SelectLockForUpdate", "SelectLockForShare",
                  "SelectLockForUpdateNoWait", "SelectLockForUpdateWaitN"}

getLockWaitTime(sessVars, lockInfo) ==
    IF /\ lockInfo # NoLockInfo
       /\ IsSelectForUpdateLockType(lockInfo.LockType)
       /\ (~sessVars.autocommit \/ sessVars.inTxn \/ sessVars.PessimisticAutoCommit)
    THEN [lock |-> TRUE,
          waitTime |-> IF lockInfo.LockType = "SelectLockForUpdateWaitN"
                       THEN Int64(MulUint64(lockInfo.WaitSec, 1000))
                       ELSE IF lockInfo.LockType = "SelectLockForUpdateNoWait"
                       THEN LockNoWait
                       ELSE sessVars.LockWaitTimeout]
    ELSE [lock |-> FALSE, waitTime |-> 0]

LockCall(sessVars, lockInfo) ==
    [shape |-> "getLockWaitTime", sessVars |-> sessVars, lockInfo |-> lockInfo]

LockInit ==
    /\ \E ac \in BOOLEAN, it \in BOOLEAN, pac \in BOOLEAN, t \in {1, 50}, li \in LockInfos :
          q = LockCall(SessionVars(ac, it, pac, t), li)
    /\ fp = Unplanned
    /\ plan = IdlePlan
    /\ sess = [rc |-> FALSE, weak |-> FALSE, txnWritable |-> FALSE]
    /\ e = InitFields(NewExecutor, IdlePlan)
    /\ phase = "unopened"
    /\ lockCache = {}
    /\ locked = {}
    /\ trace = <<>>
    /\ result = NoResult
    /\ hist = [nexts |-> 0, closed |-> FALSE, lockedBefore |-> {},
               first |-> [err |-> Nil, rows |-> 0]]

GetLockWaitTime ==
    /\ fp = Unplanned
    /\ fp' = [kind |-> "lock", ret |-> getLockWaitTime(q.sessVars, q.lockInfo)]
    /\ UNCHANGED <<q, execVars>>

LockStep == GetLockWaitTime

LockSpec == LockInit /\ [][LockStep]_vars

LockAsked == fp # Unplanned
HasLockClause ==
    q.lockInfo.LockType \in {"SelectLockForUpdate", "SelectLockForShare",
                             "SelectLockForUpdateNoWait", "SelectLockForUpdateWaitN"}
PureAutocommit ==
    q.sessVars.autocommit /\ ~q.sessVars.inTxn /\ ~q.sessVars.PessimisticAutoCommit

\* C20 as stated: lock is true exactly when the statement has a lock clause of
\* type FOR UPDATE, FOR SHARE, FOR UPDATE NOWAIT or FOR UPDATE WAIT n and the
\* session is not in pure autocommit mode; then the wait time is n*1000 for WAIT
\* n, the no-wait constant for NOWAIT and the session's lock-wait timeout
\* otherwise; when lock is false the wait time is 0.
C20_LockWaitTime ==
    LockAsked =>
        /\ fp.ret.lock <=> (HasLockClause /\ ~PureAutocommit)
        /\ fp.ret.lock =>
              fp.ret.waitTime =
                  IF q.lockInfo.LockType = "SelectLockForUpdateWaitN"
                  THEN q.lockInfo.WaitSec * 1000
                  ELSE IF q.lockInfo.LockType = "SelectLockForUpdateNoWait"
                  THEN LockNoWait
                  ELSE q.sessVars.LockWaitTimeout
        /\ ~fp.ret.lock => fp.ret.waitTime = 0

\* C20 divergence: WAIT n with n*1000 beyond int64 gives a negative wait time.
C20_Witness ==
    /\ LockAsked /\ fp.ret.lock
    /\ q.lockInfo.LockType = "SelectLockForUpdateWaitN"
    /\ q.lockInfo.WaitSec * 1000 > MaxInt64
    /\ fp.ret.waitTime < 0

\* Everything else the statement says holds, and so does the wait time of WAIT n
\* as long as n*1000 is an int64.
C20_LockWaitTimeInRange ==
    LockAsked =>
        /\ fp.ret.lock <=> (HasLockClause /\ ~PureAutocommit)
        /\ (fp.ret.lock /\ q.lockInfo.LockType = "SelectLockForUpdateWaitN"
                /\ q.lockInfo.WaitSec * 1000 <= MaxInt64)
              => fp.ret.waitTime = q.lockInfo.WaitSec * 1000
        /\ (fp.ret.lock /\ q.lockInfo.LockType = "SelectLockForUpdateNoWait")
              => fp.ret.waitTime = LockNoWait
        /\ (fp.ret.lock /\ q.lockInfo.LockType \in {"SelectLockForUpdate", "SelectLockForShare"})
              => fp.ret.waitTime = q.sessVars.LockWaitTimeout
        /\ ~fp.ret.lock => fp.ret.waitTime = 0

(***************************************************************************)
(* TryFastPlan                                                             *)
(*                                                                         *)
(* q holds the statement and its environment (privileges, session, system  *)
(* variables), fp what TryFastPlan returned together with the privilege    *)
(* verifications it made on the way.                                       *)
(***************************************************************************)
MemDBs == {Spelled("information_schema", FALSE), Spelled("performance_schema", FALSE),
           Spelled("metrics_schema", FALSE)}
\* tidbutil.IsMemDB(dbLowerName): the name is one of the memory databases' names.
IsMemDB(dbLowerName) == dbLowerName \in MemDBs

\* The LIMIT clause as extractLimitCountOffset reads it.
NoLimit == [present |-> FALSE, count |-> 0, offset |-> 0, err |-> FALSE]
Limit(count, offset, err) == [present |-> TRUE, count |-> count, offset |-> offset, err |-> err]
\* WHERE (cols) IN (list): keyed tells whether newBatchPointGetPlan resolves the
\* list to handles or to the values of a unique index.
NoPatternIn == [present |-> FALSE, Not |-> FALSE, len |-> 0, keyed |-> FALSE]
PatternIn(not, len, keyed) == [present |-> TRUE, Not |-> not, len |-> len, keyed |-> keyed]

\* ast.SelectStmt, with the table, the AND tree of the WHERE clause, the hints
\* and the PARTITION list in query.
SelectStmt(query) ==
    [type |-> "select", query |-> query, In |-> NoPatternIn,
     Having |-> FALSE, OrderBy |-> FALSE, GroupBy |-> FALSE, Distinct |-> FALSE,
     WindowSpecs |-> FALSE, Limit |-> NoLimit, LockInfo |-> NoLockInfo]
\* ast.UpdateStmt and ast.DeleteStmt.
UpdateStmt(query) ==
    [type |-> "update", query |-> query, In |-> NoPatternIn, Order |-> FALSE,
     Limit |-> NoLimit, listHasSubQuery |-> FALSE, orderedList |-> TRUE, fkErr |-> FALSE]
DeleteStmt(query) ==
    [type |-> "delete", query |-> query, In |-> NoPatternIn, Order |-> FALSE,
     Limit |-> NoLimit, IsMultiTable |-> FALSE, fkErr |-> FALSE]
OtherStmt == [type |-> "other"]

\* What the statement's session holds: the privileges on the target table (at any
\* level) and those granted globally, a table lock held by another session, the
\* system variables and the transaction.
Environment(onTable, global) ==
    [grants |-> [onTable |-> onTable, global |-> global], tableLocked |-> FALSE,
     stableResultMode |-> FALSE, selectLimitSet |-> FALSE, IsPessimistic |-> FALSE,
     sessVars |-> SessionVars(TRUE, FALSE, FALSE, 50)]

\* pm.RequestVerification(roles, dbName, tableName, "", priv): the privilege is
\* held on the table when dbName names its database, and globally otherwise.
RequestVerification(env, query, dbName, priv) ==
    IF ToLower(dbName) = dbNameOf(query)
    THEN priv \in env.grants.onTable
    ELSE priv \in env.grants.global

Verification(dbName, checkTypes, err) ==
    [dbName |-> dbName, checkTypes |-> checkTypes, err |-> err]
\* checkFastPlanPrivilege: every privilege is verified, then the table locks.
checkFastPlanPrivilege(env, query, dbName, checkTypes) ==
    IF \E i \in 1..Len(checkTypes) : ~RequestVerification(env, query, dbName, checkTypes[i])
    THEN Verification(dbName, checkTypes, "ErrPrivilegeCheckFail")
    ELSE IF env.tableLocked
    THEN Verification(dbName, checkTypes, "ErrTableLocked")
    ELSE Verification(dbName, checkTypes, Nil)

\* tryPointGetPlan without the tests of lines 1022-1029.
tryPointGetPlanStmt_NoClauseTest(selStmt, check) ==
    tryPointGetPlan([selStmt.query EXCEPT !.check = check])

\* Lines 1021-1029 of tryPointGetPlan, then the rest of it.
tryPointGetPlanStmt(selStmt, check) ==
    IF selStmt.Having \/ selStmt.OrderBy
    THEN NilPlan
    ELSE IF selStmt.Limit.present
            /\ (selStmt.Limit.err \/ selStmt.Limit.count = 0 \/ selStmt.Limit.offset > 0)
    THEN NilPlan
    ELSE tryPointGetPlan([selStmt.query EXCEPT !.check = check])

BatchPointGetPlan(query) == [kind |-> "batch", dbName |-> dbNameOf(query), call |-> NoCall]

tryWhereIn2BatchPointGet(selStmt) ==
    IF selStmt.OrderBy \/ selStmt.GroupBy \/ selStmt.Limit.present \/ selStmt.Having
       \/ selStmt.Distinct \/ selStmt.WindowSpecs
    THEN NilPlan
    ELSE IF ~selStmt.In.present \/ selStmt.In.Not \/ selStmt.In.len < 1
    THEN NilPlan
    ELSE IF selStmt.query.shape # "select"
    THEN NilPlan
    ELSE IF selStmt.query.partitionNames # {}
    THEN NilPlan
    ELSE IF ~selStmt.In.keyed
    THEN NilPlan
    ELSE BatchPointGetPlan(selStmt.query)

\* The lock clause is FOR UPDATE, FOR UPDATE NOWAIT or FOR UPDATE WAIT n.
isForUpdateReadSelectLock(lockInfo) ==
    lockInfo # NoLockInfo
    /\ lockInfo.LockType \in {"SelectLockForUpdate", "SelectLockForUpdateNoWait",
                              "SelectLockForUpdateWaitN"}

\* What TryFastPlan returns: the kind of the plan, the point plan in it, its lock
\* fields, and the verifications made and warnings appended before it returned.
NoLock(env) == [lock |-> FALSE, waitTime |-> env.sessVars.LockWaitTimeout]
FastPlan(kind, point, lock, verified) ==
    [kind |-> kind, point |-> point, Lock |-> lock.lock, LockWaitTime |-> lock.waitTime,
     verified |-> verified, warnings |-> 0]
NoFastPlan(verified) ==
    [kind |-> "nil", point |-> NilPlan, Lock |-> FALSE, LockWaitTime |-> 0,
     verified |-> verified, warnings |-> 0]

\* The *ast.SelectStmt case of TryFastPlan before its deferred function runs.
selectFastPlan(env, x) ==
    LET bp == tryWhereIn2BatchPointGet(x)
        pg == tryPointGetPlanStmt(x, isForUpdateReadSelectLock(x.LockInfo))
    IN IF bp.kind # "nil"
       THEN LET v == checkFastPlanPrivilege(env, x.query, bp.dbName, <<"Select">>)
            IN IF v.err # Nil THEN NoFastPlan(<<v>>)
               ELSE IF IsMemDB(bp.dbName) THEN NoFastPlan(<<v>>)
               ELSE FastPlan("BatchPointGetPlan", bp,
                             getLockWaitTime(env.sessVars, x.LockInfo), <<v>>)
       ELSE IF pg.kind # "nil"
       THEN LET v == checkFastPlanPrivilege(env, x.query, pg.dbName, <<"Select">>)
            IN IF v.err # Nil THEN NoFastPlan(<<v>>)
               ELSE IF IsMemDB(pg.dbName) THEN NoFastPlan(<<v>>)
               ELSE IF pg.IsTableDual
               THEN FastPlan("PhysicalTableDual", pg, NoLock(env), <<v>>)
               ELSE FastPlan("PointGetPlan", pg,
                             getLockWaitTime(env.sessVars, x.LockInfo), <<v>>)
       ELSE NoFastPlan(<<>>)

\* The SELECT statement that tryUpdatePointPlan and tryDeletePointPlan build.
selStmtOf(stmt) ==
    [SelectStmt(stmt.query) EXCEPT !.In = stmt.In, !.OrderBy = stmt.Order,
                                   !.Limit = stmt.Limit]
\* The lock fields of the point plan under an UPDATE or DELETE.
writeLock(env) ==
    IF env.IsPessimistic
    THEN getLockWaitTime(env.sessVars, SelectLockInfo("SelectLockForUpdate", 0))
    ELSE NoLock(env)

buildPointUpdatePlan(env, pointPlan, updateStmt) ==
    LET v == checkFastPlanPrivilege(env, updateStmt.query, pointPlan.dbName,
                                    <<"Select", "Update">>)
    IN IF v.err # Nil THEN NoFastPlan(<<v>>)
       ELSE IF ~updateStmt.orderedList THEN NoFastPlan(<<v>>)
       ELSE IF updateStmt.fkErr THEN NoFastPlan(<<v>>)
       ELSE FastPlan("Update", pointPlan, writeLock(env), <<v>>)

tryUpdatePointPlan(env, updateStmt) ==
    LET selStmt == selStmtOf(updateStmt)
        pointGet == tryPointGetPlanStmt(selStmt, TRUE)
        batchPointGet == tryWhereIn2BatchPointGet(selStmt)
    IN IF updateStmt.listHasSubQuery
       THEN NoFastPlan(<<>>)
       ELSE IF pointGet.kind # "nil"
       THEN (IF pointGet.IsTableDual
             THEN FastPlan("PhysicalTableDual", pointGet, NoLock(env), <<>>)
             ELSE buildPointUpdatePlan(env, pointGet, updateStmt))
       ELSE IF batchPointGet.kind # "nil"
       THEN buildPointUpdatePlan(env, batchPointGet, updateStmt)
       ELSE NoFastPlan(<<>>)

buildPointDeletePlan(env, pointPlan, delStmt) ==
    LET v == checkFastPlanPrivilege(env, delStmt.query, pointPlan.dbName,
                                    <<"Select", "Delete">>)
    IN IF v.err # Nil THEN NoFastPlan(<<v>>)
       ELSE IF delStmt.fkErr THEN NoFastPlan(<<v>>)
       ELSE FastPlan("Delete", pointPlan, writeLock(env), <<v>>)

tryDeletePointPlan(env, delStmt) ==
    LET selStmt == selStmtOf(delStmt)
        pointGet == tryPointGetPlanStmt(selStmt, TRUE)
        batchPointGet == tryWhereIn2BatchPointGet(selStmt)
    IN IF delStmt.IsMultiTable
       THEN NoFastPlan(<<>>)
       ELSE IF pointGet.kind # "nil"
       THEN (IF pointGet.IsTableDual
             THEN FastPlan("PhysicalTableDual", pointGet, NoLock(env), <<>>)
             ELSE buildPointDeletePlan(env, pointGet, delStmt))
       ELSE IF batchPointGet.kind # "nil"
       THEN buildPointDeletePlan(env, batchPointGet, delStmt)
       ELSE NoFastPlan(<<>>)

TryFastPlan(env, node) ==
    IF env.stableResultMode
    THEN NoFastPlan(<<>>)
    ELSE IF node.type = "select"
    THEN LET p == selectFastPlan(env, node)
         IN IF env.selectLimitSet /\ p.kind # "nil"
            THEN [NoFastPlan(p.verified) EXCEPT !.warnings = 1]
            ELSE p
    ELSE IF node.type = "update"
    THEN tryUpdatePointPlan(env, node)
    ELSE IF node.type = "delete"
    THEN tryDeletePointPlan(env, node)
    ELSE NoFastPlan(<<>>)

(***************************************************************************)
(* The statements and environments TryFastPlan is given                    *)
(***************************************************************************)
FastCall(env, node) == [shape |-> "TryFastPlan", env |-> env, node |-> node]
Privileges == {"Select", "Update", "Delete"}
AllGranted == Environment(Privileges, Privileges)

\* A table whose primary key is the integer handle a; the statement names it
\* with the schema name as written, in a session whose current database is given.
FastQuery(part, where, pnames, schema, currentDB) ==
    [Query("select", Table(TRUE, FALSE, <<>>, part), where, <<>>, pnames, 0,
           Session(FALSE, 1), FALSE, Latest(FALSE, <<>>))
     EXCEPT !.schema = CIStr(schema), !.sess.currentDB = currentDB]
PlainQuery(where) == FastQuery(NoPartitioning, where, {}, NoName, CurrentDB)

\* SELECT statements with every combination of the clauses the fast path tests.
ClauseStatement ==
    \E flags \in SUBSET {"Having", "OrderBy", "GroupBy", "Distinct", "WindowSpecs"},
       lim \in {NoLimit, Limit(1, 0, FALSE), Limit(0, 0, FALSE), Limit(1, 1, FALSE),
                Limit(1, 0, TRUE)},
       w \in {<<Eq("a", 0)>>, <<Eq("a", Overflowing)>>, <<>>},
       li \in {NoLockInfo, SelectLockInfo("SelectLockForUpdate", 0),
               SelectLockInfo("SelectLockForUpdateWaitN", 1)},
       it \in BOOLEAN :
       \E in \in IF w = <<>>
                 THEN {PatternIn(FALSE, 2, TRUE), PatternIn(TRUE, 2, TRUE),
                       PatternIn(FALSE, 2, FALSE), PatternIn(FALSE, 0, TRUE)}
                 ELSE {NoPatternIn} :
          q = FastCall([AllGranted EXCEPT !.sessVars.inTxn = it],
                       [SelectStmt(PlainQuery(w)) EXCEPT
                          !.Having = "Having" \in flags, !.OrderBy = "OrderBy" \in flags,
                          !.GroupBy = "GroupBy" \in flags, !.Distinct = "Distinct" \in flags,
                          !.WindowSpecs = "WindowSpecs" \in flags,
                          !.Limit = lim, !.In = in, !.LockInfo = li])

StatementOf(type, query, in) ==
    IF type = "select" THEN [SelectStmt(query) EXCEPT !.In = in]
    ELSE IF type = "update" THEN [UpdateStmt(query) EXCEPT !.In = in]
    ELSE [DeleteStmt(query) EXCEPT !.In = in]

\* SELECT, UPDATE and DELETE under every set of privileges, on tables of an
\* ordinary and of a memory database, named with and without the schema.
PrivilegeStatement ==
    \E type \in {"select", "update", "delete"},
       onTable \in SUBSET Privileges, globally \in BOOLEAN, tl \in BOOLEAN,
       schema \in {NoName, Spelled("test", FALSE), Spelled("information_schema", FALSE),
                   Spelled("information_schema", TRUE)},
       cur \in {CurrentDB, Spelled("information_schema", FALSE)},
       w \in {<<Eq("a", 0)>>, <<Eq("a", Overflowing)>>, <<OtherOp>>, <<>>},
       srm \in BOOLEAN, sl \in BOOLEAN, pess \in BOOLEAN :
       q = FastCall([Environment(onTable, IF globally THEN onTable ELSE {}) EXCEPT
                        !.tableLocked = tl, !.stableResultMode = srm,
                        !.selectLimitSet = sl, !.IsPessimistic = pess],
                    StatementOf(type, FastQuery(NoPartitioning, w, {}, schema, cur),
                                IF w = <<>> THEN PatternIn(FALSE, 2, TRUE) ELSE NoPatternIn))

\* Statements on a hash-partitioned table with a PARTITION list.
PartitionStatement ==
    \E type \in {"select", "update", "delete"}, v \in 0..MaxInt,
       pn \in SUBSET {Spelled(i, c) : i \in 0..(NumPartitions - 1), c \in BOOLEAN},
       onTable \in {Privileges, {}}, schema \in {NoName, Spelled("test", FALSE)},
       sl \in BOOLEAN :
       q = FastCall([Environment(onTable, onTable) EXCEPT !.selectLimitSet = sl],
                    StatementOf(type,
                                FastQuery(Partition("hash", FALSE, FALSE), <<Eq("a", v)>>,
                                          {CIStr(n) : n \in pn}, schema, CurrentDB),
                                NoPatternIn))

\* UPDATE and DELETE statements that the fast path turns down for their form,
\* and statements of other types.
FormStatement ==
    \/ \E sub \in BOOLEAN, ol \in BOOLEAN, fk \in BOOLEAN, ord \in BOOLEAN,
          lim \in {NoLimit, Limit(1, 0, FALSE), Limit(0, 0, FALSE)},
          w \in {<<Eq("a", 0)>>, <<>>} :
          q = FastCall(AllGranted,
                       [UpdateStmt(PlainQuery(w)) EXCEPT
                          !.listHasSubQuery = sub, !.orderedList = ol, !.fkErr = fk,
                          !.Order = ord, !.Limit = lim,
                          !.In = IF w = <<>> THEN PatternIn(FALSE, 2, TRUE) ELSE NoPatternIn])
    \/ \E mt \in BOOLEAN, fk \in BOOLEAN, ord \in BOOLEAN,
          lim \in {NoLimit, Limit(1, 0, FALSE), Limit(0, 0, FALSE)},
          w \in {<<Eq("a", 0)>>, <<>>} :
          q = FastCall(AllGranted,
                       [DeleteStmt(PlainQuery(w)) EXCEPT
                          !.IsMultiTable = mt, !.fkErr = fk, !.Order = ord, !.Limit = lim,
                          !.In = IF w = <<>> THEN PatternIn(FALSE, 2, TRUE) ELSE NoPatternIn])
    \/ q = FastCall(AllGranted, OtherStmt)

FastInit ==
    /\ (ClauseStatement \/ PrivilegeStatement \/ PartitionStatement \/ FormStatement)
    /\ fp = Unplanned
    /\ plan = IdlePlan
    /\ sess = [rc |-> FALSE, weak |-> FALSE, txnWritable |-> FALSE]
    /\ e = InitFields(NewExecutor, IdlePlan)
    /\ phase = "unopened"
    /\ lockCache = {}
    /\ locked = {}
    /\ trace = <<>>
    /\ result = NoResult
    /\ hist = [nexts |-> 0, closed |-> FALSE, lockedBefore |-> {},
               first |-> [err |-> Nil, rows |-> 0]]

TryFastPlanCall ==
    /\ fp = Unplanned
    /\ fp' = TryFastPlan(q.env, q.node)
    /\ UNCHANGED <<q, execVars>>

FastStep == TryFastPlanCall

FastSpec == FastInit /\ [][FastStep]_vars

(***************************************************************************)
(* Properties of TryFastPlan                                               *)
(***************************************************************************)
Returned_ == fp # Unplanned
Node == q.node
IsStatement == Node.type \in {"select", "update", "delete"}
IsFastPlan == fp.kind # "nil"
\* The plan tryPointGetPlan returns for the statement.
PointPlan ==
    IF Node.type = "select"
    THEN tryPointGetPlanStmt(Node, isForUpdateReadSelectLock(Node.LockInfo))
    ELSE tryPointGetPlanStmt(selStmtOf(Node), TRUE)
\* The partition the predicate gives, on a partitioned table with a PARTITION list.
ComputedPartition == getPartitionDef(Node.query, getNameValuePairs(Node.query.tbl, Node.query.where).pairs)
SelectWithPartitionList ==
    /\ Returned_ /\ Node.type = "select"
    /\ Node.query.tbl.part.type # "none"
    /\ Node.query.partitionNames # {}
    /\ ComputedPartition.def # NoPartition
\* Some name of the list is, letter case aside, the name of the computed partition.
Named == \E n \in Node.query.partitionNames : n.L.text = ComputedPartition.def[1]
\* The verification TryFastPlan makes for a SELECT passes.
SelectVerified(dbName) ==
    /\ ~q.env.tableLocked
    /\ "Select" \in (IF ToLower(dbName) = dbNameOf(Node.query)
                     THEN q.env.grants.onTable ELSE q.env.grants.global)

\* C13 as stated: for a single-row SELECT on a partitioned table with a PARTITION
\* list, when the partition computed from the predicate is not among the named
\* partitions (letter case aside) tryPointGetPlan returns a plan with IsTableDual
\* set and TryFastPlan returns an empty table-dual plan; when it is among them
\* the plan carries that partition.
C13_PartitionSelection_AsStated ==
    SelectWithPartitionList =>
        IF ~Named
        THEN /\ PointPlan.kind = "plan" /\ PointPlan.IsTableDual
             /\ fp.kind = "PhysicalTableDual"
        ELSE IsFastPlan => fp.point.PartitionDef = ComputedPartition.def

\* C13 amended: when the computed partition is not among the named partitions
\* (letter case aside) tryPointGetPlan returns a plan with IsTableDual set, and
\* TryFastPlan returns an empty table-dual plan if the SELECT privilege is verified
\* for the schema name as the statement writes it, that name is no memory
\* database's, sql_select_limit is not set and the stable-result mode is off;
\* otherwise it returns no fast plan.  It returns no error and no plan that reads
\* the computed partition.  When the partition is among the named ones, the fast
\* plan, if one is returned, is a point plan that carries that partition.
C13_PartitionSelection ==
    SelectWithPartitionList =>
        IF ~Named
        THEN /\ PointPlan.kind = "plan" /\ PointPlan.IsTableDual
             /\ PointPlan.PartitionDef = NoPartition
             /\ IF /\ SelectVerified(Node.query.schema.O)
                   /\ ~IsMemDB(Node.query.schema.O)
                   /\ ~q.env.selectLimitSet /\ ~q.env.stableResultMode
                THEN fp.kind = "PhysicalTableDual"
                ELSE fp.kind = "nil"
        ELSE IsFastPlan =>
                /\ fp.kind = "PointGetPlan"
                /\ fp.point.PartitionDef = ComputedPartition.def

\* C13 witness: the predicate gives p1, the statement names P0 only, and an
\* empty table-dual plan is returned.
C13_Witness ==
    /\ SelectWithPartitionList
    /\ ComputedPartition.def = <<1>>
    /\ Node.query.partitionNames = {CIStr(Spelled(0, TRUE))}
    /\ fp.kind = "PhysicalTableDual"

\* C13 witness: the statement names P1 in capitals and the plan reads p1.
C13_NamedWitness ==
    /\ SelectWithPartitionList
    /\ ComputedPartition.def = <<1>>
    /\ Node.query.partitionNames = {CIStr(Spelled(1, TRUE))}
    /\ fp.kind = "PointGetPlan" /\ fp.point.PartitionDef = <<1>>

IsSelect == Returned_ /\ Node.type = "select"
LimitForbids ==
    Node.Limit.present /\ (Node.Limit.err \/ Node.Limit.count = 0 \/ Node.Limit.offset > 0)

\* C17 as stated: TryFastPlan returns no fast plan for a SELECT that has LIMIT 0,
\* a non-zero OFFSET, ORDER BY, GROUP BY, HAVING or a window specification,
\* whatever its WHERE clause.
C17_ResultShapingClauses_AsStated ==
    (/\ IsSelect
     /\ \/ Node.Limit.present /\ (Node.Limit.count = 0 \/ Node.Limit.offset > 0)
        \/ Node.OrderBy \/ Node.GroupBy \/ Node.Having \/ Node.WindowSpecs)
        => fp.kind \notin {"PointGetPlan", "BatchPointGetPlan"}

\* C17 amended: TryFastPlan returns no fast plan for a SELECT that has LIMIT 0, a
\* non-zero OFFSET, a LIMIT that cannot be evaluated, ORDER BY or HAVING, whatever
\* its WHERE clause.  GROUP BY, DISTINCT, a window specification and any LIMIT
\* rule out the BatchPointGetPlan only: with them a single-row PointGetPlan or an
\* empty table-dual plan is returned just as without them.
C17_ResultShapingClauses ==
    IsSelect =>
        /\ (LimitForbids \/ Node.OrderBy \/ Node.Having) => fp.kind = "nil"
        /\ (Node.GroupBy \/ Node.Distinct \/ Node.WindowSpecs \/ Node.Limit.present)
              => fp.kind # "BatchPointGetPlan"
        /\ (~LimitForbids /\ ~Node.OrderBy /\ ~Node.Having /\ ~Node.In.present)
              => fp = TryFastPlan(q.env, [Node EXCEPT !.GroupBy = FALSE, !.Distinct = FALSE,
                                                      !.WindowSpecs = FALSE, !.Limit = NoLimit])

\* C17 witness: a SELECT with GROUP BY and a window specification gets a PointGetPlan.
C17_Witness ==
    /\ IsSelect
    /\ Node.GroupBy /\ Node.WindowSpecs /\ ~Node.Limit.present
    /\ fp.kind = "PointGetPlan"

\* C17 witness: HAVING keeps a SELECT with a keyed IN list off the fast path.
C17_HavingWitness ==
    /\ IsSelect
    /\ Node.Having /\ ~Node.GroupBy /\ Node.In.present /\ Node.In.keyed /\ ~Node.In.Not
    /\ Node.In.len > 0
    /\ fp.kind = "nil"

\* The privileges the statement needs on its target table.
Required ==
    IF Node.type = "select" THEN {"Select"}
    ELSE IF Node.type = "update" THEN {"Select", "Update"}
    ELSE {"Select", "Delete"}
Range(f) == {f[i] : i \in DOMAIN f}
VerifiedBefore ==
    \E i \in 1..Len(fp.verified) :
        fp.verified[i].err = Nil /\ Range(fp.verified[i].checkTypes) = Required

\* C18 as stated: every plan TryFastPlan returns for a SELECT, UPDATE or DELETE,
\* the empty table-dual plan included, was preceded by a successful verification
\* of the privileges the statement needs on the target table; when the
\* verification fails TryFastPlan returns no plan.
C18_PrivilegeVerified ==
    (Returned_ /\ IsStatement) =>
        /\ IsFastPlan => (VerifiedBefore /\ Required \subseteq q.env.grants.onTable)
        /\ ~(Required \subseteq q.env.grants.onTable) => ~IsFastPlan

\* C18 divergence: an UPDATE by a user without any privilege gets the empty
\* table-dual plan, and no verification was made.
C18_Witness ==
    /\ Returned_ /\ Node.type = "update"
    /\ q.env.grants.onTable = {}
    /\ fp.kind = "PhysicalTableDual"
    /\ fp.verified = <<>>

\* The plans that are not table duals are verified.
C18_PlansThatRead ==
    (Returned_ /\ IsStatement /\ IsFastPlan /\ fp.kind # "PhysicalTableDual") =>
        (VerifiedBefore /\ Required \subseteq q.env.grants.onTable)

\* The target table belongs to a memory database.
OnMemDB == IsMemDB(dbNameOf(Node.query))

\* C19 as stated: TryFastPlan returns no fast plan for a SELECT, UPDATE or DELETE
\* whose target table belongs to a memory database.
C19_NoFastPlanOnMemDB ==
    (Returned_ /\ IsStatement /\ OnMemDB) => ~IsFastPlan

\* C19 divergence: an UPDATE of a table of information_schema gets an Update plan
\* over a PointGetPlan.
C19_Witness ==
    /\ Returned_ /\ Node.type = "update" /\ OnMemDB
    /\ fp.kind = "Update" /\ fp.point.kind = "plan"

\* C19 divergence: a SELECT with an overflowing constant on a table of the current
\* database information_schema gets the empty table-dual plan.
C19_SelectWitness ==
    /\ Returned_ /\ Node.type = "select" /\ OnMemDB
    /\ fp.kind = "PhysicalTableDual"

\* A SELECT on a table of a memory database gets no plan that reads.
C19_SelectNeverReads ==
    (Returned_ /\ Node.type = "select" /\ OnMemDB) =>
        fp.kind \in {"nil", "PhysicalTableDual"}

(***************************************************************************)
(* Open under a transaction scope                                          *)
(*                                                                         *)
(* The executor is built with the builder's txnScope; sess.local holds the *)
(* ids of the tables and partitions whose placement lets the local scope   *)
(* read them.                                                              *)
(***************************************************************************)
TxnScopes == {"", GlobalTxnScope, "local"}
ScopePlans ==
    {pl \in PointGetPlans :
        /\ ~pl.temp
        /\ pl.idxInfo \in {"nil", "unique"}
        /\ pl.idxVals \in {<<>>, <<OkDatum>>}}

ScopeBuilt ==
    /\ plan \in ScopePlans
    /\ \E s \in Sessions, local \in SUBSET {TableID, PartID} :
          sess = [rc |-> s.rc, weak |-> s.weak, txnWritable |-> s.txnWritable,
                  local |-> local]
    /\ \E scope \in TxnScopes :
          e = [InitFields(NewExecutor, plan) EXCEPT !.txnScope = scope]
    /\ phase = "unopened"
    /\ lockCache = {}
    /\ locked = {}
    /\ trace = <<>>
    /\ result = NoResult
    /\ hist = [nexts |-> 0, closed |-> FALSE, lockedBefore |-> {},
               first |-> [err |-> Nil, rows |-> 0]]
    /\ q = NoQuery
    /\ fp = NoQuery

ScopeSpec == ScopeBuilt /\ [][ExecStep]_vars

OpenReturned == result.call = "Open"
PlacementError == result.err = "ErrInvalidPlacementPolicyCheck"
ScopeRestricted == e.txnScope # "" /\ e.txnScope # GlobalTxnScope
\* The id verifyTxnScope verifies: the partition's when one is set.
ScopeID == IF e.partitionDef # "nil" THEN e.partitionDef ELSE TableID
\* The scope verification was made for the target and failed.
ScopeVerificationFails ==
    result.verified = ScopeVerified(ScopeID, FALSE) /\ ScopeID \notin sess.local
\* The message names the table, and the partition exactly when one is set.
MessageNamesTarget ==
    IF e.partitionDef # "nil"
    THEN result.msg = <<"table", TableName, "partition", PartitionName, e.txnScope>>
    ELSE result.msg = <<"table", TableName, e.txnScope>>
NothingIssued == trace = <<>> /\ phase # "opened"

\* C21: Open returns the placement-policy error exactly when the scope is neither
\* empty nor global and the scope verification fails for the partition id (when
\* a partition is set) or the table id, which it does whenever the transaction
\* was obtained and the placement of that target does not admit the scope; the
\* message names the table, and the partition when one is set; with an empty or
\* global scope Open never fails on scope and verifies nothing; after a scope
\* failure no lock request or read has been issued and the executor is not open.
C21_ScopeError ==
    OpenReturned =>
        /\ PlacementError <=> (ScopeRestricted /\ ScopeVerificationFails)
        /\ (e.txn /\ ScopeRestricted /\ ScopeID \notin sess.local) => PlacementError
        /\ PlacementError => (MessageNamesTarget /\ NothingIssued)
        /\ ~ScopeRestricted => (~PlacementError /\ result.verified = <<>>)

\* C21 witness: the table may be read by the local scope, the partition may
\* not, and Open fails naming the partition.
C21_Witness ==
    /\ OpenReturned /\ PlacementError
    /\ e.txnScope = "local" /\ e.partitionDef = PartID
    /\ sess.local = {TableID}
    /\ result.msg = <<"table", "t", "partition", "p0", "local">>

\* C21 witness: a global scope opens a partition that the local scope may not read.
C21_GlobalWitness ==
    /\ OpenReturned /\ result.err = Nil
    /\ e.txnScope = GlobalTxnScope /\ sess.local = {} /\ phase = "opened"

(***************************************************************************)
(* newBatchPointGetPlan and the batch executor                             *)
(*                                                                         *)
(* q holds the table, the IN list, the rows the table holds and the order  *)
(* request; fp the BatchPointGetPlan and then the rows returned.           *)
(***************************************************************************)
MaxList == 3        \* elements of an IN list

\* An element of the IN list: a literal of some kind, or no constant at all.
Item(kind, v) == [kind |-> kind, v |-> v]

\* getPointGetValue on an integer column (1507-1526): nil for a value that
\* does not convert to the column's type unchanged.
NoValue == [nil |-> TRUE, val |-> 0]
\* getPointGetValue without the comparison of the converted value.
getPointGetValue_NoCompare(colType, unsigned, d) ==
    IF ~checkCanConvertInPointGet(colType, d)
    THEN NoValue
    ELSE LET c == ConvertTo(d, unsigned)
         IN IF c.err # Nil THEN NoValue ELSE [nil |-> FALSE, val |-> c.val]
getPointGetValue(colType, unsigned, d) ==
    IF ~checkCanConvertInPointGet(colType, d)
    THEN NoValue
    ELSE LET c == ConvertTo(d, unsigned)
         IN IF c.err # Nil
            THEN NoValue
            ELSE IF Compare(c.val, d) # 0
            THEN NoValue
            ELSE [nil |-> FALSE, val |-> c.val]

\* SortInts that leaves the positions in the order of a map iteration.
RECURSIVE SortInts_MapOrder(_)
SortInts_MapOrder(S) ==
    IF S = {} THEN <<>>
    ELSE LET last == CHOOSE x \in S : \A y \in S : x >= y
         IN <<last>> \o SortInts_MapOrder(S \ {last})

\* sort.Ints over the keys of pos2PartitionDefinition.
RECURSIVE SortInts(_)
SortInts(S) ==
    IF S = {} THEN <<>>
    ELSE LET least == CHOOSE x \in S : \A y \in S : x <= y
         IN <<least>> \o SortInts(S \ {least})

NoBatchPlan == [kind |-> "nil"]
\* The fields of a BatchPointGetPlan that newBatchPointGetPlan sets.
NewBatchPlan(handles, indexValues, idxInfo, positions) ==
    [kind |-> "batch", Handles |-> handles, IndexValues |-> indexValues,
     IndexInfo |-> idxInfo,
     PartitionDefs |-> [i \in 1..Len(positions) |-> <<positions[i]>>]]

\* The loop over patternInExpr.List (662-699 for handles, 784-882 for index
\* values of a one-column index): the values so far and the positions of the
\* partitions hit, or nil.
RECURSIVE itemLoop(_, _, _, _, _, _)
itemLoop(query, colName, list, i, values, positions) ==
    IF i > Len(list)
    THEN [nil |-> FALSE, values |-> values, positions |-> positions]
    ELSE LET d == list[i]
         IN IF d.kind = "nonconst" \/ d.kind = "null"
            THEN [nil |-> TRUE, values |-> <<>>, positions |-> {}]
            ELSE LET dval == getPointGetValue(ColType(colName),
                                              ColUnsigned(query.tbl, colName), d)
                 IN IF dval.nil
                    THEN [nil |-> TRUE, values |-> <<>>, positions |-> {}]
                    ELSE LET pairs == <<nameValuePair(colName, dval.val)>>
                             pd == IF query.tbl.part.type # "none"
                                   THEN getPartitionDef(query, pairs) ELSE NoPartDef
                         IN IF pd.dual
                            THEN [nil |-> TRUE, values |-> <<>>, positions |-> {}]
                            ELSE itemLoop(query, colName, list, i + 1,
                                          Append(values, dval.val),
                                          IF pd.def # NoPartition
                                          THEN positions \cup {pd.def[1]}
                                          ELSE positions)

\* The first index that covers the one column of the IN expression (750-781).
batchIndexLoop(query, colName) ==
    LET idxs == query.tbl.indices
        usable(i) ==
            /\ idxs[i].unique /\ idxs[i].state = "public" /\ ~idxs[i].invisible
            /\ ~idxs[i].mv
            /\ indexIsAvailableByHints(idxs[i].name, query.hints)
            /\ Len(idxs[i].cols) = 1 /\ ~idxs[i].prefix
            /\ idxs[i].cols[1] = colName
    IN IF \E i \in 1..Len(idxs) : usable(i)
       THEN idxs[CHOOSE i \in 1..Len(idxs) : usable(i) /\ \A j \in 1..(i - 1) : ~usable(j)]
       ELSE NoIndex

\* newBatchPointGetPlan for WHERE col IN (list); isHandle tells that col is
\* the integer primary key (handleCol != nil).
newBatchPointGetPlan(query, colName, isHandle, list) ==
    IF query.tbl.part.type = "hashexpr"
    THEN NoBatchPlan
    ELSE IF isHandle
    THEN LET r == itemLoop(query, colName, list, 1, <<>>, {})
         IN IF r.nil THEN NoBatchPlan
            ELSE NewBatchPlan(r.values, <<>>, NoIndex, SortInts(r.positions))
    ELSE LET matchIdxInfo == batchIndexLoop(query, colName)
         IN IF matchIdxInfo = NoIndex
            THEN NoBatchPlan
            ELSE LET r == itemLoop(query, colName, list, 1, <<>>, {})
                 IN IF r.nil THEN NoBatchPlan
                    ELSE NewBatchPlan(<<>>, [i \in 1..Len(r.values) |-> <<r.values[i]>>],
                                      matchIdxInfo, SortInts(r.positions))

\* The batch executor.  The row of handle h holds h in its columns a and b,
\* and lives in the partition that the partitioning function gives for h.
PhysicalID(query, h) ==
    IF query.tbl.part.type = "none"
    THEN TableID
    ELSE getPartitionDef(query, <<nameValuePair("a", h)>>).def
StoredRows(query, rows) == {EncodeRowKeyWithHandle(PhysicalID(query, h), h) : h \in rows}
\* The unique-index entries: the entry of value v leads to the handle v.
StoredIndex(rows) == {EncodeIndexSeekKey(TableID, <<v>>) : v \in rows}

\* Dedup that keeps every occurrence.
Dedup_KeepAll(list) == list

\* The elements of a list in the order of their first occurrences.
RECURSIVE Dedup(_)
Dedup(list) ==
    IF list = <<>> THEN <<>>
    ELSE LET front == Dedup(SubSeq(list, 1, Len(list) - 1))
             last == list[Len(list)]
         IN IF \E i \in 1..Len(front) : front[i] = last
            THEN front ELSE Append(front, last)
Select(list, Keep(_)) == SelectSeq(list, Keep)
Orderings(list) ==
    {[i \in 1..Len(list) |-> list[f[i]]] :
        f \in {g \in [1..Len(list) -> 1..Len(list)] :
                 \A i, j \in 1..Len(list) : g[i] = g[j] => i = j}}

\* The handles the executor looks up: the plan's, or those its index values
\* lead to, a key looked up once however often the list names it.
BatchHandles(batch, rows) ==
    IF batch.IndexInfo = NoIndex
    THEN Dedup(batch.Handles)
    ELSE LET found(vals) == EncodeIndexSeekKey(TableID, vals) \in StoredIndex(rows)
             vals == Select(Dedup(batch.IndexValues), found)
         IN Dedup([i \in 1..Len(vals) |-> vals[i][1]])

\* The rows the batch executor returns, by handle: those of the keys that have
\* a row, in the order of the list when KeepOrder is requested and in any
\* order otherwise.
BatchPointGetRows(query, batch, rows, keepOrder) ==
    LET exists(h) == EncodeRowKeyWithHandle(PhysicalID(query, h), h) \in StoredRows(query, rows)
        out == Select(BatchHandles(batch, rows), exists)
    IN IF keepOrder THEN {out} ELSE Orderings(out)

BatchCall(query, colName, isHandle, list, rows, keepOrder) ==
    [shape |-> "batch", query |-> query, col |-> colName, isHandle |-> isHandle,
     list |-> list, rows |-> rows, KeepOrder |-> keepOrder]

ListValues == IntRange(FALSE) \cup {Overflowing}
InLists ==
    UNION {[1..n -> {Item("int", v) : v \in ListValues}] : n \in 1..MaxList}
    \cup {<<Item("null", 0)>>, <<Item("int", 0), Item("nonconst", 0)>>,
          <<Item("frac", 0)>>}
\* Every row that a column can hold is there, but for at most one.
RowSets(unsigned) ==
    {IntRange(unsigned)} \cup {IntRange(unsigned) \ {h} : h \in IntRange(unsigned)}

BatchQuery(tbl) ==
    Query("select", tbl, <<>>, <<>>, {}, 0, Session(FALSE, 1), FALSE, Latest(FALSE, <<>>))

\* IN lists on the integer primary key of plain and partitioned tables.
HandleBatch ==
    \E u \in BOOLEAN, list \in InLists, ko \in BOOLEAN :
    \E part \in {NoPartitioning, Partition("hash", FALSE, FALSE),
                 Partition("hashexpr", FALSE, FALSE)}
                \cup {Partition("range", m, FALSE) : m \in BOOLEAN} :
    \E rows \in RowSets(u) :
        q = BatchCall(BatchQuery(Table(TRUE, u, <<>>, part)), "a", TRUE, list, rows, ko)

\* IN lists on the column of a unique index, and on a column without one.
IndexBatch ==
    \E list \in InLists, ko \in BOOLEAN, rows \in RowSets(FALSE),
       flaw \in {"ok", "nonunique", "invisible"} :
        q = BatchCall(BatchQuery(Table(FALSE, FALSE, <<Index(1, <<"b">>, flaw)>>,
                                       NoPartitioning)),
                      "b", FALSE, list, rows, ko)

BatchInit ==
    /\ (HandleBatch \/ IndexBatch)
    /\ fp = Unplanned
    /\ plan = IdlePlan
    /\ sess = [rc |-> FALSE, weak |-> FALSE, txnWritable |-> FALSE]
    /\ e = InitFields(NewExecutor, IdlePlan)
    /\ phase = "unopened"
    /\ lockCache = {}
    /\ locked = {}
    /\ trace = <<>>
    /\ result = NoResult
    /\ hist = [nexts |-> 0, closed |-> FALSE, lockedBefore |-> {},
               first |-> [err |-> Nil, rows |-> 0]]

NewBatchPointGetPlanCall ==
    /\ fp = Unplanned
    /\ fp' = [kind |-> "planned",
              batch |-> newBatchPointGetPlan(q.query, q.col, q.isHandle, q.list),
              executed |-> FALSE, rows |-> <<>>]
    /\ UNCHANGED <<q, execVars>>

BatchPointGetNext ==
    /\ fp.kind = "planned"
    /\ fp.batch.kind = "batch"
    /\ ~fp.executed
    /\ \E out \in BatchPointGetRows(q.query, fp.batch, q.rows, q.KeepOrder) :
          fp' = [fp EXCEPT !.executed = TRUE, !.rows = out]
    /\ UNCHANGED <<q, execVars>>

BatchStep == NewBatchPointGetPlanCall \/ BatchPointGetNext

BatchSpec == BatchInit /\ [][BatchStep]_vars

(***************************************************************************)
(* Properties of the batch point get                                       *)
(***************************************************************************)
BatchPlanned == fp.kind = "planned" /\ fp.batch.kind = "batch"
Partitioned == q.query.tbl.part.type # "none"
\* The partitions that the handles of the plan fall into.
PartitionsHit ==
    {getPartitionDef(q.query, <<nameValuePair(q.col, fp.batch.Handles[i])>>).def :
        i \in 1..Len(fp.batch.Handles)}
HandlesFollowList ==
    /\ Len(fp.batch.Handles) = Len(q.list)
    /\ \A i \in 1..Len(q.list) : fp.batch.Handles[i] = q.list[i].v
PartitionsOnceAscending ==
    LET defs == fp.batch.PartitionDefs
    IN /\ \A i, j \in 1..Len(defs) : i < j => defs[i][1] < defs[j][1]
       /\ {defs[i] : i \in 1..Len(defs)} = PartitionsHit

\* C24: the plan of an IN list on the integer handle column has one handle per
\* element of the list, in the order of the list and with its duplicates, and
\* names each partition that a handle falls into once, by ascending position.
C24_HandlesAndPartitions ==
    (BatchPlanned /\ q.isHandle) =>
        /\ HandlesFollowList
        /\ Partitioned => PartitionsOnceAscending

\* A list with a repeated handle whose handles fall into two partitions.
C24_Witness ==
    /\ BatchPlanned /\ q.isHandle /\ q.query.tbl.part.type = "hash"
    /\ Len(fp.batch.Handles) = 3
    /\ fp.batch.Handles[1] = fp.batch.Handles[2]
    /\ Len(fp.batch.PartitionDefs) = 2

BatchExecuted == fp.kind = "planned" /\ fp.executed
\* The element of the IN list is a constant equal to the column value h.
Matches(item, h) == item.kind = "int" /\ item.v = h
Listed(h) == \E i \in 1..Len(q.list) : Matches(q.list[i], h)
Times(rows, h) == Cardinality({i \in 1..Len(rows) : rows[i] = h})
ColumnValues == IntRange(ColUnsigned(q.query.tbl, q.col))
\* The rows of the listed keys in the order of the list, one for each
\* occurrence of a key.
RowPerOccurrence ==
    LET present(item) == item.v \in q.rows
    IN [i \in 1..Len(SelectSeq(q.list, present)) |-> SelectSeq(q.list, present)[i].v]
OncePerKey ==
    \A h \in ColumnValues :
        Times(fp.rows, h) = IF Listed(h) /\ h \in q.rows THEN 1 ELSE 0

C23_RangeWitness ==
    /\ BatchExecuted /\ q.isHandle /\ q.query.tbl.part.type = "range"
    /\ \E i, j \in 1..Len(q.list) : i # j /\ q.list[i] = q.list[j] /\ q.list[i].v \in q.rows
    /\ Len(fp.rows) = 2
C23_IndexWitness ==
    /\ BatchExecuted /\ ~q.isHandle /\ fp.batch.IndexInfo # NoIndex
    /\ \E i, j \in 1..Len(q.list) : i # j /\ q.list[i] = q.list[j] /\ q.list[i].v \in q.rows
    /\ \E i \in 1..Len(q.list) : q.list[i].v \notin q.rows
    /\ Len(fp.rows) = 1

(***************************************************************************)
(* ReferenceCount of the StatementContext                                  *)
(*                                                                         *)
(* q holds the counter rf and, for each session, the place it has reached  *)
(* in the operation it is in (at), the count it loaded (refCnt) and what   *)
(* its last TryIncrease or TryFreeze returned (ret).  Every atomic load,   *)
(* compare-and-swap and store is a step of its own.  A session calls       *)
(* Decrease after its own successful TryIncrease and UnFreeze after its    *)
(* own successful TryFreeze.                                               *)
(***************************************************************************)
NumSessions == 2    \* concurrent sessions
ReferenceCountIsFrozen == -1
ReferenceCountNoReference == 0
Sessions_ == 1..NumSessions

RefState(rf, at, refCnt, ret) ==
    [shape |-> "ReferenceCount", rf |-> rf, at |-> at, refCnt |-> refCnt, ret |-> ret,
     step |-> <<0, "none">>]
\* The state after a step of op taken by session s.
By(s, op, state) == [state EXCEPT !.step = <<s, op>>]
RefIdle ==
    /\ fp = Unplanned
    /\ plan = IdlePlan
    /\ sess = [rc |-> FALSE, weak |-> FALSE, txnWritable |-> FALSE]
    /\ e = InitFields(NewExecutor, IdlePlan)
    /\ phase = "unopened"
    /\ lockCache = {}
    /\ locked = {}
    /\ trace = <<>>
    /\ result = NoResult
    /\ hist = [nexts |-> 0, closed |-> FALSE, lockedBefore |-> {},
               first |-> [err |-> Nil, rows |-> 0]]
RefInit ==
    /\ q = RefState(ReferenceCountNoReference, [s \in Sessions_ |-> "idle"],
                    [s \in Sessions_ |-> 0], [s \in Sessions_ |-> "none"])
    /\ RefIdle

\* atomic.LoadInt32 at the start of TryIncrease and after a failed swap.
TryIncreaseLoad(s) ==
    /\ q.at[s] \in {"idle", "TryIncrease.load"}
    /\ q' = By(s, "TryIncrease",
            IF q.rf = ReferenceCountIsFrozen
            THEN [q EXCEPT !.at[s] = "idle", !.refCnt[s] = q.rf, !.ret[s] = "false"]
            ELSE [q EXCEPT !.at[s] = "TryIncrease.cas", !.refCnt[s] = q.rf,
                           !.ret[s] = "none"])
    /\ UNCHANGED <<fp, execVars>>
\* atomic.CompareAndSwapInt32(rf, refCnt, refCnt+1).
TryIncreaseCAS(s) ==
    /\ q.at[s] = "TryIncrease.cas"
    /\ q' = By(s, "TryIncrease",
            IF q.rf = q.refCnt[s]
            THEN [q EXCEPT !.rf = q.refCnt[s] + 1, !.at[s] = "referenced",
                           !.ret[s] = "true"]
            ELSE [q EXCEPT !.at[s] = "TryIncrease.load"])
    /\ UNCHANGED <<fp, execVars>>
TryIncrease(s) == TryIncreaseLoad(s) \/ TryIncreaseCAS(s)

DecreaseLoad(s) ==
    /\ q.at[s] \in {"referenced", "Decrease.load"}
    /\ q' = By(s, "Decrease",
            [q EXCEPT !.at[s] = "Decrease.cas", !.refCnt[s] = q.rf, !.ret[s] = "none"])
    /\ UNCHANGED <<fp, execVars>>
DecreaseCAS(s) ==
    /\ q.at[s] = "Decrease.cas"
    /\ q' = By(s, "Decrease",
            IF q.rf = q.refCnt[s]
            THEN [q EXCEPT !.rf = q.refCnt[s] - 1, !.at[s] = "idle"]
            ELSE [q EXCEPT !.at[s] = "Decrease.load"])
    /\ UNCHANGED <<fp, execVars>>
Decrease(s) == DecreaseLoad(s) \/ DecreaseCAS(s)

\* atomic.LoadInt32(rf) == ReferenceCountNoReference.
TryFreezeLoad(s) ==
    /\ q.at[s] = "idle"
    /\ q' = By(s, "TryFreeze",
            IF q.rf = ReferenceCountNoReference
            THEN [q EXCEPT !.at[s] = "TryFreeze.cas", !.refCnt[s] = q.rf, !.ret[s] = "none"]
            ELSE [q EXCEPT !.refCnt[s] = q.rf, !.ret[s] = "false"])
    /\ UNCHANGED <<fp, execVars>>
\* TryFreeze that stores the frozen value without comparing.
TryFreezeCAS_Store(s) ==
    /\ q.at[s] = "TryFreeze.cas"
    /\ q' = By(s, "TryFreeze",
            [q EXCEPT !.rf = ReferenceCountIsFrozen, !.at[s] = "froze", !.ret[s] = "true"])
    /\ UNCHANGED <<fp, execVars>>
\* atomic.CompareAndSwapInt32(rf, ReferenceCountNoReference, ReferenceCountIsFrozen).
TryFreezeCAS(s) ==
    /\ q.at[s] = "TryFreeze.cas"
    /\ q' = By(s, "TryFreeze",
            IF q.rf = ReferenceCountNoReference
            THEN [q EXCEPT !.rf = ReferenceCountIsFrozen, !.at[s] = "froze",
                           !.ret[s] = "true"]
            ELSE [q EXCEPT !.at[s] = "idle", !.ret[s] = "false"])
    /\ UNCHANGED <<fp, execVars>>
TryFreeze(s) == TryFreezeLoad(s) \/ TryFreezeCAS(s)

\* atomic.StoreInt32(rf, ReferenceCountNoReference).
UnFreeze(s) ==
    /\ q.at[s] = "froze"
    /\ q' = By(s, "UnFreeze",
            [q EXCEPT !.rf = ReferenceCountNoReference, !.at[s] = "idle", !.ret[s] = "none"])
    /\ UNCHANGED <<fp, execVars>>
RefStep ==
    \/ \E s \in Sessions_ : TryIncrease(s)
    \/ \E s \in Sessions_ : Decrease(s)
    \/ \E s \in Sessions_ : TryFreeze(s)
    \/ \E s \in Sessions_ : UnFreeze(s)

RefSpec == RefInit /\ [][RefStep]_vars

Frozen == q.rf = ReferenceCountIsFrozen
\* The session holds a reference: its TryIncrease has succeeded and its
\* Decrease has not yet taken the reference back.
Referencing(s) == q.at[s] \in {"referenced", "Decrease.load", "Decrease.cas"}
FreezeSucceeds(s) == q'.step = <<s, "TryFreeze">> /\ q'.ret[s] = "true"
\* A step of TryIncrease taken by s.
TryIncreaseSteps(s) == q'.step = <<s, "TryIncrease">>

\* C25: TryFreeze succeeds only on the count 0; a step that TryIncrease takes
\* while the count is frozen leaves the count as it is and does not make the
\* call return true; the count is never below the frozen value -1, and no
\* session holds a reference while the count is frozen.
C25_ReferenceCount ==
    /\ [](q.rf >= ReferenceCountIsFrozen)
    /\ [](Frozen => \A s \in Sessions_ : ~Referencing(s))
    /\ [][\A s \in Sessions_ :
            /\ FreezeSucceeds(s) => q.rf = ReferenceCountNoReference
            /\ (Frozen /\ TryIncreaseSteps(s)) =>
                  (q'.rf = q.rf /\ q'.ret[s] # "true" /\ ~Referencing(s)')]_vars

\* A session has frozen the count and another has had its TryIncrease refused.
C25_Witness ==
    /\ Frozen
    /\ \E s, t \in Sessions_ : q.at[s] = "froze" /\ q.at[t] = "idle" /\ q.ret[t] = "false"
                               /\ q.refCnt[t] = ReferenceCountIsFrozen

(***************************************************************************)
(* PointGetExecutor.get on its own                                         *)
(*                                                                         *)
(* q holds the key; the session, the executor's lock flag and the          *)
(* pessimistic-lock cache are those of the state; fp receives what get     *)
(* returns and trace the reads it made.                                    *)
(***************************************************************************)
GetKeys == {NoKey, EncodeIndexSeekKey(TableID, <<1>>), EncodeRowKeyWithHandle(TableID, 1)}
\* Pessimistic-lock caches: at most one value for a key.
LockCaches ==
    {c \in SUBSET {<<k, v>> : k \in GetKeys \ {NoKey}, v \in IndexValues \cup RowValues} :
        /\ \A x \in c : x[2] \in ValuesOf(x[1])
        /\ \A x, y \in c : x[1] = y[1] => x = y}

GetInit ==
    /\ \E key \in GetKeys : q = [shape |-> "get", key |-> key]
    /\ fp = Unplanned
    /\ plan = IdlePlan
    /\ \E w \in BOOLEAN : sess = [rc |-> FALSE, weak |-> FALSE, txnWritable |-> w]
    /\ \E l \in BOOLEAN : e = [InitFields(NewExecutor, IdlePlan) EXCEPT !.lock = l, !.txn = TRUE]
    /\ phase = "opened"
    /\ lockCache \in LockCaches
    /\ locked = {}
    /\ trace = <<>>
    /\ result = NoResult
    /\ hist = [nexts |-> 0, closed |-> FALSE, lockedBefore |-> {},
               first |-> [err |-> Nil, rows |-> 0]]

GetCall ==
    /\ fp = Unplanned
    /\ \E o \in get([e |-> e, cache |-> lockCache, locked |-> locked, tr |-> <<>>], q.key) :
          /\ fp' = [kind |-> "get", val |-> o.val, err |-> o.err]
          /\ trace' = o.st.tr
    /\ UNCHANGED <<q, plan, sess, e, phase, lockCache, locked, result, hist>>

GetSpec == GetInit /\ [][GetCall]_vars

GetReturned == fp.kind = "get"
Gave(ev) == fp.val = ev.val /\ fp.err = ev.err
FromSnapshot(i) == Len(trace) = i /\ trace[i].op = "snapshot" /\ Gave(trace[i])
Cached == InPessimisticLockCache(lockCache, q.key)

\* C26: get returns not-exist for an empty key without a read; with a valid
\* transaction that is not read-only it returns the write buffer's value or
\* its error other than not-found at once, else, if the executor locks and
\* the pessimistic-lock cache holds the key, the cached value, else what the
\* snapshot gives; with no such transaction it returns what the snapshot gives.
C26_GetPrecedence ==
    GetReturned =>
        IF Len(q.key) = 0
        THEN fp.err = ErrNotExist /\ trace = <<>>
        ELSE IF ~sess.txnWritable
        THEN FromSnapshot(1)
        ELSE /\ trace[1].op = "membuffer"
             /\ trace[1].key = q.key
             /\ IF trace[1].err # ErrNotFound
                THEN Len(trace) = 1 /\ Gave(trace[1])
                ELSE IF e.lock /\ Cached
                THEN /\ Len(trace) = 2 /\ trace[2].op = "lockcache"
                     /\ fp.err = Nil
                     /\ fp.val = GetKeyInPessimisticLockCache(lockCache, q.key)
                ELSE FromSnapshot(2)

\* A miss in the write buffer answered from the pessimistic-lock cache.
C26_Witness ==
    /\ GetReturned /\ sess.txnWritable /\ e.lock /\ Cached
    /\ Len(trace) = 2 /\ trace[1].err = ErrNotFound /\ trace[2].op = "lockcache"
\* A miss in the write buffer and a cached key that a non-locking executor
\* reads from the snapshot.
C26_SnapshotWitness ==
    /\ GetReturned /\ sess.txnWritable /\ ~e.lock /\ Cached
    /\ Len(trace) = 2 /\ trace[2].op = "snapshot"
C26_BufferErrorWitness ==
    /\ GetReturned /\ Len(trace) = 1 /\ trace[1].op = "membuffer"
    /\ fp.err = "ErrMemBuffer"

(***************************************************************************)
(* Properties of the executor: errors and the lock cache                   *)
(***************************************************************************)
NextReturned == result.call = "Next"
KeyNotFound == {Nil, ErrNotExist, ErrNotFound}
OneLockPerKey ==
    \A i, j \in 1..Len(trace) :
        (i < j /\ IsLock(trace[i]) /\ IsLock(trace[j])) => trace[i].key # trace[j].key
\* A failed lock request or read is the last one, and its error is returned.
FailureEndsNext ==
    \A i \in 1..Len(trace) :
        trace[i].err \notin KeyNotFound => (i = Len(trace) /\ result.err = trace[i].err)
\* After a handle that does not decode the row key is neither locked nor read;
\* a row that does not decode gives the decoder's error.
DecodeFailureEndsNext ==
    /\ result.err = "ErrDecodeHandle" => \A i \in 1..Len(trace) : trace[i].key[1] # "r"
    /\ result.rowVal = <<"badrow">> => (result.err = "ErrDecodeRow" /\ result.rows = 0)

\* C27: in one Next call no key is the object of two lock requests, and a lock
\* request, read or decode that fails with an error other than key-not-found
\* ends the call: Next returns that error and issues no further request.
C27_NoRetries ==
    NextReturned => (OneLockPerKey /\ FailureEndsNext /\ DecodeFailureEndsNext)

\* The read of the index key fails after the key was locked: nothing follows.
C27_Witness ==
    /\ NextReturned /\ Len(trace) = 2
    /\ IsLock(trace[1]) /\ IsRead(trace[2]) /\ trace[2].key[1] = "i"
    /\ trace[2].err = "ErrSnapshot" /\ result.err = "ErrSnapshot"
C27_TwoLocksWitness ==
    /\ NextReturned
    /\ \E i, j \in 1..Len(trace) : i < j /\ IsLock(trace[i]) /\ IsLock(trace[j])
C27_DecodeWitness ==
    /\ NextReturned /\ result.err = "ErrDecodeHandle" /\ trace # <<>>

(***************************************************************************)
(* One executor initialised again for another plan                         *)
(*                                                                         *)
(* The executor is built for a plan that reads through the unique index,   *)
(* and Init is called on it, when it is not open, with a plan for another  *)
(* value of that index.                                                    *)
(***************************************************************************)
OtherDatum == [OkDatum EXCEPT !.v = 2]
ReusePlans(d) ==
    {[idxInfo |-> "unique", idxVals |-> <<d>>, handle |-> 0, lock |-> l, temp |-> t,
      partitionDef |-> "nil", lockWaitTime |-> w] :
        l \in BOOLEAN, t \in BOOLEAN, w \in {0, 1}}
Again == plan.idxVals = <<OtherDatum>>

ReuseBuilt ==
    /\ plan \in ReusePlans(OkDatum)
    /\ sess \in {x \in Sessions : ~x.weak}
    /\ e = InitFields(NewExecutor, plan)
    /\ phase = "unopened"
    /\ lockCache = {}
    /\ locked = {}
    /\ trace = <<>>
    /\ result = NoResult
    /\ hist = [nexts |-> 0, closed |-> FALSE, lockedBefore |-> {},
               first |-> [err |-> Nil, rows |-> 0]]
    /\ q = NoQuery
    /\ fp = NoQuery

\* PointGetExecutor.Init on the executor of an earlier execution.
Init ==
    /\ phase \in {"unopened", "closed"}
    /\ ~Again
    /\ \E p \in ReusePlans(OtherDatum) :
          /\ plan' = p
          /\ e' = InitFields(e, p)
    /\ phase' = "unopened"
    /\ trace' = <<>>
    /\ result' = Returned("Init", Nil)
    /\ UNCHANGED <<sess, lockCache, locked, hist, q, fp>>

ReuseStep == Init \/ Open \/ Next \/ Close

ReuseSpec == ReuseBuilt /\ [][ReuseStep]_vars

\* The value that the event gives for its key.
Obtains(ev, key, val) ==
    /\ ev.key = key /\ ev.val = val /\ ev.err = Nil
    /\ IsLock(ev) => ev.exists
\* The lock request i of the trace stored (index key -> handle value).
Stores(i) == IsLock(trace[i]) /\ trace[i].cached # <<>>

\* C28: the handle value that Next stores in the pessimistic-lock cache under
\* the index key is the value a lock request or read of this Next call has
\* obtained for that index key, on a first execution and on an execution
\* after Init for another index key.
C28_CachedHandleIsCurrent ==
    NextReturned =>
        \A i \in 1..Len(trace) :
            Stores(i) =>
                \E j \in 1..i : Obtains(trace[j], trace[i].cached[1], trace[i].cached[2])

\* The executor of a plan that found an index entry, initialised for another
\* index key, stores a handle value on the lock request for the new key.
C28_Witness ==
    /\ NextReturned /\ Again /\ Len(trace) > 0 /\ Stores(1)
    /\ trace[1].key = e.idxKey
    /\ e.idxKey = EncodeIndexSeekKey(TableID, <<2>>)
\* A first execution stores the handle value it has read.
C28_FirstExecution ==
    (NextReturned /\ ~Again /\ ~hist.closed) =>
        \A i \in 1..Len(trace) :
            Stores(i) =>
                \E j \in 1..i : Obtains(trace[j], trace[i].cached[1], trace[i].cached[2])
C28_FirstWitness ==
    /\ NextReturned /\ ~Again /\ ~hist.closed
    /\ \E i \in 1..Len(trace) : Stores(i)

\* C29: after Init with the plan of a temporary table the executor's lock flag
\* is false and its lock wait time 0, whatever the plan carries, and a Next
\* call issues no lock request and leaves the pessimistic-lock cache and the
\* locked keys as they are.
C29_TemporaryTableNeverLocks ==
    /\ [](plan.temp => (~e.lock /\ e.lockWaitTime = 0))
    /\ []((plan.temp /\ NextReturned) => \A i \in 1..Len(trace) : ~IsLock(trace[i]))
    /\ [][(plan.temp /\ result'.call = "Next") =>
            (lockCache' = lockCache /\ locked' = locked)]_vars

\* A plan of a temporary table that asks for the lock and a wait time, read
\* after the executor had locked for another plan.
C29_Witness ==
    /\ plan.temp /\ plan.lock /\ plan.lockWaitTime = 1
    /\ NextReturned /\ trace # <<>> /\ Again /\ locked # {}

(***************************************************************************)
(* The warnings of a StatementContext                                      *)
(*                                                                         *)
(* q holds how many warnings of each level sc.mu.warnings stores and the   *)
(* InShowWarning flag; fp what the last WarningCount call returned, with   *)
(* the number of warnings stored at the call.  A uint16 is 0..MaxUint16.   *)
(***************************************************************************)
MaxUint16 == 15     \* math.MaxUint16 of the model
MaxWarns == 3       \* warnings handed to one AppendWarnings call
WarnLevels == {"Warning", "Note", "Error"}

Stored == q.warnings["Warning"] + q.warnings["Note"] + q.warnings["Error"]
Uint16(n) == n % (MaxUint16 + 1)

\* append(sc.mu.warnings, ...) of n warnings of a level.
Append_(level, n) == [q EXCEPT !.warnings[level] = @ + n]

WarnInit ==
    /\ \E b \in BOOLEAN :
          q = [shape |-> "warnings", warnings |-> [l \in WarnLevels |-> 0],
               InShowWarning |-> b]
    /\ RefIdle

AppendWarning ==
    /\ q' = IF Stored < MaxUint16 THEN Append_("Warning", 1) ELSE q
    /\ UNCHANGED <<fp, execVars>>
AppendNote ==
    /\ q' = IF Stored < MaxUint16 THEN Append_("Note", 1) ELSE q
    /\ UNCHANGED <<fp, execVars>>
AppendError ==
    /\ q' = IF Stored < MaxUint16 THEN Append_("Error", 1) ELSE q
    /\ UNCHANGED <<fp, execVars>>
\* AppendWarnings with a slice of n warnings of one level.
AppendWarnings ==
    /\ \E n \in 0..MaxWarns, level \in WarnLevels :
          q' = IF Stored < MaxUint16 THEN Append_(level, n) ELSE q
    /\ UNCHANGED <<fp, execVars>>
WarningCount ==
    /\ fp' = [kind |-> "WarningCount", stored |-> Stored,
              ret |-> IF q.InShowWarning THEN 0 ELSE Uint16(Stored)]
    /\ UNCHANGED <<q, execVars>>

WarnStep == AppendWarning \/ AppendNote \/ AppendError \/ AppendWarnings \/ WarningCount

WarnSpec == WarnInit /\ [][WarnStep]_vars

Counted == fp.kind = "WarningCount"

\* C30: after any sequence of appends to a context that had no warnings the
\* number of stored warnings is at most math.MaxUint16, and WarningCount
\* returns the number of stored warnings unless the statement is SHOW WARNINGS.
C30_WarningCount ==
    /\ Stored <= MaxUint16
    /\ (Counted /\ ~q.InShowWarning) => fp.ret = fp.stored

\* More warnings stored than a uint16 counts, and a count that differs.
C30_Witness ==
    /\ Counted /\ ~q.InShowWarning
    /\ fp.stored > MaxUint16 /\ fp.ret # fp.stored

\* The appends of one warning keep the number within math.MaxUint16.
C30_SingleAppends ==
    [][(Stored <= MaxUint16 /\ (AppendWarning \/ AppendNote \/ AppendError))
         => Stored' <= MaxUint16]_vars
====
